---- MODULE Spec2Model ----
(***************************************************************************)
(* Eumicus knowledge store: the JSON knowledge graph file and its          *)
(* load / mutate / save operations (modules/knowledge-graph.js), the       *)
(* connection merge and cluster walk (ConnectionMapper), the activity log  *)
(* and the spaced-repetition arithmetic (modules/knowledge-reinforcer.js). *)
(*                                                                         *)
(* Time is counted in seconds (the code counts milliseconds; 30 days of    *)
(* milliseconds does not fit TLC's 32-bit integers).  Confidence values    *)
(* are fixed-point: ConfOne stands for 1.0.                                *)
(***************************************************************************)
EXTENDS Integers, Sequences, FiniteSets, TLC

\* ------------------------------------------------------------------ bounds
\* Number of store operations started in one behaviour.
MaxOps == 3

\* ------------------------------------------------------------- JS values
\* Scalar JavaScript values are tagged pairs, so that null, undefined and NaN
\* are values of their own.
Null == <<"null", 0>>
NaN == <<"NaN", 0>>
Undefined == <<"undefined", 0>>
Num(x) == <<"number", x>>
Date(t) == <<"date", t>>
Url(k) == <<"string", k>>
IsNum(v) == v[1] = "number"

\* Fixed-point 1.0.
ConfOne == 10000

Names == {"A", "B"}
\* The operations that can be in flight at once; a new operation takes the
\* lowest free slot.
Tasks == {1, 2}
FreeSlot(t, p) == p[t] = "idle" /\ \A u \in Tasks : u < t => p[u] # "idle"

\* The keys whose values are scalar JS values (every other key holds a
\* string, a timestamp or an array).
ScalarKeys ==
  {"confidence", "reinforcement_schedule", "last_reinforced",
   "overall_performance", "url", "accuracy_score", "completeness_score"}
ArrayKeys ==
  {"concepts", "content_items", "reinforcement_sessions",
   "exploration_suggestions", "reflection_sessions"}

\* { ...a, ...b }
Overlay(a, b) ==
  [f \in (DOMAIN a) \cup (DOMAIN b) |-> IF f \in DOMAIN b THEN b[f] ELSE a[f]]

\* obj.key of a JS object: undefined when the key is absent.
Get(o, k) == IF k \in DOMAIN o THEN o[k] ELSE Undefined

\* --------------------------------------------------------------- JSON
\* JSON.stringify: a NaN number is written as null, a key whose value is
\* undefined is left out.
JsonValue(v) == IF v = NaN THEN Null ELSE v
JsonObject(o) ==
  LET keep == {k \in DOMAIN o : ~(k \in ScalarKeys /\ o[k] = Undefined)}
  IN  [k \in keep |-> IF k \in ScalarKeys THEN JsonValue(o[k]) ELSE o[k]]
JsonArray(s) == [i \in 1..Len(s) |-> JsonObject(s[i])]
JSONstringify(g) ==
  [k \in DOMAIN g |-> IF k \in ArrayKeys THEN JsonArray(g[k]) ELSE g[k]]
\* JSON.parse: the text is represented by the JSON value it denotes.
JSONparse(text) == text

\* The text of a file that does not exist.
NoText == <<>>

\* initializeKnowledgeGraph's initialGraph.
initialGraph(now) ==
  [user_profile |-> [learning_style |-> "", goals |-> <<>>, created_at |-> now],
   concepts |-> <<>>,
   content_items |-> <<>>,
   reinforcement_sessions |-> <<>>,
   exploration_suggestions |-> <<>>,
   last_updated |-> now]

\* A file whose text is not JSON (cut short by a crash, edited by hand).
Corrupt == [corrupt |-> TRUE]
IsCorrupt(text) == "corrupt" \in DOMAIN text

\* loadKnowledgeGraph: readFile throws ENOENT when the file is absent and
\* JSON.parse throws on text that is not JSON; the catch re-throws.
\* Otherwise the parsed document is returned.
loadKnowledgeGraphDefault(exists, text) ==
  IF exists /\ ~IsCorrupt(text) THEN [ok |-> TRUE, graph |-> JSONparse(text)]
  ELSE [ok |-> TRUE, graph |-> initialGraph(0)]
loadKnowledgeGraph(exists, text) ==
  IF exists /\ ~IsCorrupt(text) THEN [ok |-> TRUE, graph |-> JSONparse(text)]
  ELSE [ok |-> FALSE, graph |-> NoText]

\* saveKnowledgeGraph, first half: graph.last_updated = new Date().
Stamp(g, now) == [g EXCEPT !.last_updated = now]

\* Array.findIndex(c => c.name === name): 0 stands for -1.
findIndex(concepts, name) ==
  LET hits == {i \in 1..Len(concepts) : concepts[i].name = name}
  IN  IF hits = {} THEN 0 ELSE CHOOSE i \in hits : \A j \in hits : i <= j

\* list.includes(x) || list.push(x)
pushAlways(list, x) == Append(list, x)
pushUnique(list, x) ==
  IF \E i \in 1..Len(list) : list[i] = x THEN list ELSE Append(list, x)

\* ------------------------------------------------- the store's mutators
\* addConcept, between load and save: merge on a name match, else append.
addConceptAlwaysPush(g, concept, now) ==
  [g EXCEPT !.concepts =
     Append(@, Overlay(concept, [created_at |-> now, last_updated |-> now]))]
addConceptReplace(g, concept, now) ==
  LET existingIndex == findIndex(g.concepts, concept.name)
  IN  IF existingIndex >= 1
      THEN [g EXCEPT !.concepts[existingIndex] =
              Overlay(concept, [last_updated |-> now])]
      ELSE [g EXCEPT !.concepts =
              Append(@, Overlay(concept, [created_at |-> now, last_updated |-> now]))]
addConceptGraph(g, concept, now) ==
  LET existingIndex == findIndex(g.concepts, concept.name)
  IN  IF existingIndex >= 1
      THEN [g EXCEPT !.concepts[existingIndex] =
              Overlay(Overlay(@, concept), [last_updated |-> now])]
      ELSE [g EXCEPT !.concepts =
              Append(@, Overlay(concept, [created_at |-> now, last_updated |-> now]))]

addContentItemOnly(g, contentItem, now) ==
  [g EXCEPT !.content_items = <<Overlay(contentItem, [id |-> now, processed_date |-> now])>>]
\* addContentItem: id defaults to content_<Date.now()>, processed_date is
\* stamped, the item is pushed.
addContentItemGraph(g, contentItem, now) ==
  LET id == IF "id" \in DOMAIN contentItem THEN contentItem.id ELSE now
  IN  [g EXCEPT !.content_items =
         Append(@, Overlay(contentItem, [id |-> id, processed_date |-> now]))]

\* addReinforcementSession: session.date is stamped, the session is pushed.
addReinforcementSessionGraph(g, session, now) ==
  [g EXCEPT !.reinforcement_sessions = Append(@, Overlay(session, [date |-> now]))]

\* addExplorationSuggestion: created_at is stamped, the suggestion is pushed.
addExplorationSuggestionGraph(g, suggestion, now) ==
  [g EXCEPT !.exploration_suggestions =
     Append(@, Overlay(suggestion, [created_at |-> now]))]

\* updateUserProfile: { ...graph.user_profile, ...profile, last_updated }.
updateUserProfileGraph(g, profile, now) ==
  [g EXCEPT !.user_profile = Overlay(Overlay(@, profile), [last_updated |-> now])]

\* One half of applyNewConnections' loop body: find the concept `who`, give
\* it a connections list if it has none, add `other` unless already there.
linkConcept(concepts, who, other) ==
  LET i == findIndex(concepts, who)
  IN  IF i = 0 THEN concepts
      ELSE [concepts EXCEPT ![i] =
              Overlay(@, [connections |->
                 pushUnique(IF "connections" \in DOMAIN @ THEN @.connections ELSE <<>>,
                            other)])]

RECURSIVE applyEach(_, _)
applyEach(concepts, connections) ==
  IF connections = <<>> THEN concepts
  ELSE LET c == Head(connections)
           afterFrom == linkConcept(concepts, c.from_concept, c.to_concept)
           afterTo == linkConcept(afterFrom, c.to_concept, c.from_concept)
       IN  applyEach(afterTo, Tail(connections))

\* applyNewConnections, between load and save.
applyNewConnectionsGraph(g, connections) ==
  [g EXCEPT !.concepts = applyEach(@, connections)]

\* applyConnections: the proposed connections are merged into the new
\* concepts in memory (the same two updates, on updatedConcepts), then each
\* updated concept goes through addConcept.
RECURSIVE addConceptEach(_, _, _)
addConceptEach(g, concepts, now) ==
  IF concepts = <<>> THEN g
  ELSE addConceptEach(JSONparse(JSONstringify(Stamp(addConceptGraph(g, Head(concepts), now), now))),
                      Tail(concepts), now)
applyConnectionsGraph(g, newConcepts, connections, now) ==
  addConceptEach(g, applyEach(newConcepts, connections), now)

\* saveReflectionSession, between load and save: replace the session with
\* the same id, else push.
saveReflectionSessionGraph(g, session, now) ==
  LET g1 == IF "reflection_sessions" \in DOMAIN g THEN g
            ELSE Overlay(g, [reflection_sessions |-> <<>>])
      s1 == IF session.status = "completed"
            THEN Overlay(session, [end_time |-> now]) ELSE session
      hits == {i \in 1..Len(g1.reflection_sessions) :
                 g1.reflection_sessions[i].id = session.id}
  IN  IF hits # {}
      THEN [g1 EXCEPT !.reflection_sessions[CHOOSE i \in hits : \A j \in hits : i <= j] = s1]
      ELSE [g1 EXCEPT !.reflection_sessions = Append(@, s1)]

\* completeReinforcementSession's summary of the answers it processed:
\* the averages divide by the number of scores.
overallPerformance(scores) ==
  IF Len(scores) = 0 THEN NaN
  ELSE LET RECURSIVE sum(_, _)
           sum(k, f) == IF k = 0 THEN 0 ELSE scores[k][f] + sum(k - 1, f)
           avgAccuracy == sum(Len(scores), "accuracy") \div Len(scores)
           avgCompleteness == sum(Len(scores), "completeness") \div Len(scores)
       IN  Num((avgAccuracy + avgCompleteness) \div 2)
sessionResults(scores) ==
  [answers_provided |-> Len(scores), overall_performance |-> overallPerformance(scores)]

\* --------------------------------------------------------------- state
VARIABLES
  clock,      \* new Date(): the current time
  kgExists,   \* knowledge-graph.json exists
  kgText,     \* its contents
  pc,         \* per task: "idle", or "writing" (fs.writeFile in flight)
  op,         \* per task: the operation it runs, or ran last
  arg,        \* per task: that operation's argument
  graph,      \* per task: the document object handed to saveKnowledgeGraph
  outcome,    \* per task: "none", "running", "ok" or "error" (the promise)
  done,       \* the operations that settled, oldest first (an observer)
  started,    \* number of operations started
  logText,    \* activity-log.json: [activities, last_updated]
  added,      \* every activity addActivity returned, oldest first (an observer)
  logExists,  \* activity-log.json exists
  cacheExists, \* content-cache.json exists
  cacheText,  \* its contents: [items, last_updated]
  calcPc,     \* the call under test (arithmetic, or a feature): "ready" or "done"
  calcIn,     \* its inputs
  calcOut,    \* its result
  clPc,       \* the cluster walk: "ready" or "done"
  clIn,       \* the concepts array it is given
  clOut,      \* the clusters it returns
  plan,       \* a learning plan: [subtopics, currentSubtopic, completedSubtopics]
  progress,   \* what getProgress last returned for it
  urlPc,      \* processUrl: the statement it is at ("idle" before the call)
  urlIn,      \* the url it was given
  page,       \* its local `page`: an index into pages, or 0 for null
  retryCount, \* its local retryCount
  pages,      \* every page browser.newPage() returned: "open", "closed", "closeRejected"
  attempts,   \* number of browser attempts begun (an observer)
  fetches,    \* number of fetch(url) calls made (an observer)
  urlOut,     \* its local `content`, then what the call returned or threw
  rsPc,       \* generateReinforcementSession: "idle", "loop" or "done"
  rsNow,      \* the time of its getConceptsForReinforcement call (an observer)
  rsDue,      \* conceptsToReview
  rsTodo,     \* the selected concepts the for loop has not reached yet
  rsSession,  \* its local `session`
  rsOut,      \* what the call returned or threw
  convState,  \* socket.conversationState: <<>> for null, else <<the state>>
  profileObj, \* the profile object every conversation state refers to
  hPc,        \* per message handler: "idle", "llm" or "completing"
  hArg,       \* per message handler: the state processUserResponse was given
  answered,   \* the position each answered message was applied to (an observer)
  completions, \* number of completeProfiling calls (an observer)
  overlaps,   \* number of messages that arrived while one was in flight (an observer)
  question,   \* what getCurrentQuestion last returned
  rfCalls,    \* number of ReflectionEngine calls made (an observer)
  rfOut,      \* what the last of them returned or threw
  rfQuestion, \* what ReflectionEngine.getCurrentQuestion last returned
  isRunning,  \* LearningPipeline.isRunning
  intervals,  \* LearningPipeline.intervals: task name -> timer id
  timers,     \* the timer ids setInterval has registered and nothing cleared
  listeners,  \* number of 'connection' listeners the pipeline installed on io
  sockets,    \* per connected socket: handlers registered for each event
  handled     \* the last socket event and how many handlers ran for it

storeVars ==
  <<clock, kgExists, kgText, pc, op, arg, graph, outcome, done, started>>
logVars == <<logText, added, logExists, cacheExists, cacheText>>
calcVars == <<calcPc, calcIn, calcOut>>
clusterVars == <<clPc, clIn, clOut>>
planVars == <<plan, progress>>
urlVars == <<urlPc, urlIn, page, retryCount, pages, attempts, fetches, urlOut>>
rsVars == <<rsPc, rsNow, rsDue, rsTodo, rsSession, rsOut>>
profVars ==
  <<convState, profileObj, hPc, hArg, answered, completions, overlaps, question>>
rfVars == <<rfCalls, rfOut, rfQuestion>>
lpVars == <<isRunning, intervals, timers, listeners, sockets, handled>>
extVars == <<urlVars, rsVars, profVars, rfVars, lpVars>>
vars == <<storeVars, logVars, calcVars, clusterVars, planVars, extVars>>

\* ------------------------------------------------------- inputs
ConceptInputs ==
  UNION {{[name |-> n, confidence |-> Num(5000)],
          [name |-> n, confidence |-> Num(8000),
           connections |-> <<CHOOSE m \in Names : m # n>>],
          [name |-> n, category |-> "tech"]} : n \in Names}
ContentInputs ==
  {[type |-> "text", url |-> Undefined], [type |-> "webpage", url |-> Url(1)]}
ScoreInputs ==
  {<<>>, <<[accuracy |-> ConfOne, completeness |-> 5000]>>}
SuggestionInputs == {[area |-> "graphs", priority |-> "high"]}
ProfileInputs == {[learning_style |-> "visual"], [goals |-> <<"tla">>]}
ConnectionInputs ==
  {<<[from_concept |-> a, to_concept |-> b]>> : a, b \in Names} \ 
  {<<[from_concept |-> a, to_concept |-> a]>> : a \in Names}
ReflectionInputs ==
  {[id |-> 1, status |-> "active"], [id |-> 1, status |-> "completed"]}

\* What each operation does to the loaded document before it saves it.
Mutate(o, g, a, now) ==
  CASE o = "addConcept" -> addConceptGraph(g, a, now)
    [] o = "addContentItem" -> addContentItemGraph(g, a, now)
    [] o = "addReinforcementSession" -> addReinforcementSessionGraph(g, a, now)
    [] o = "addExplorationSuggestion" -> addExplorationSuggestionGraph(g, a, now)
    [] o = "updateUserProfile" -> updateUserProfileGraph(g, a, now)
    [] o = "applyNewConnections" -> applyNewConnectionsGraph(g, a)
    [] o = "applyConnections" ->
         applyConnectionsGraph(g, a.newConcepts, a.connections, now)
    [] o = "saveReflectionSession" -> saveReflectionSessionGraph(g, a, now)

StoreInit ==
  /\ clock = 1
  /\ kgExists \in BOOLEAN
  /\ kgText = IF kgExists THEN JSONstringify(initialGraph(0)) ELSE NoText
  /\ pc = [t \in Tasks |-> "idle"]
  /\ op = [t \in Tasks |-> "none"]
  /\ arg = [t \in Tasks |-> Null]
  /\ graph = [t \in Tasks |-> NoText]
  /\ outcome = [t \in Tasks |-> "none"]
  /\ done = <<>>
  /\ started = 0

\* A mutator up to its call of fs.writeFile: await loadKnowledgeGraph()
\* (a failed read is re-thrown), then, in one synchronous run, the change,
\* the last_updated stamp and JSON.stringify.
Begin(t, o, a) ==
  /\ started < MaxOps
  /\ started' = started + 1
  /\ clock' = clock + 1
  /\ op' = [op EXCEPT ![t] = o]
  /\ arg' = [arg EXCEPT ![t] = a]
  /\ LET r == loadKnowledgeGraph(kgExists, kgText)
     IN  IF r.ok
         THEN /\ graph' = [graph EXCEPT ![t] = Stamp(Mutate(o, r.graph, a, clock), clock)]
              /\ pc' = [pc EXCEPT ![t] = "writing"]
              /\ outcome' = [outcome EXCEPT ![t] = "running"]
              /\ UNCHANGED done
         ELSE /\ outcome' = [outcome EXCEPT ![t] = "error"]
              /\ done' = Append(done, [op |-> o, arg |-> a, ok |-> FALSE])
              /\ UNCHANGED <<graph, pc>>
  /\ UNCHANGED <<kgExists, kgText, logVars, calcVars, clusterVars, planVars, extVars>>

AddConcept(t) ==
  FreeSlot(t, pc) /\ \E c \in ConceptInputs : Begin(t, "addConcept", c)
AddContentItem(t) ==
  FreeSlot(t, pc) /\ \E c \in ContentInputs : Begin(t, "addContentItem", c)
AddReinforcementSession(t) ==
  FreeSlot(t, pc) /\ \E s \in ScoreInputs : Begin(t, "addReinforcementSession", sessionResults(s))
AddExplorationSuggestion(t) ==
  FreeSlot(t, pc) /\ \E s \in SuggestionInputs : Begin(t, "addExplorationSuggestion", s)
UpdateUserProfile(t) ==
  FreeSlot(t, pc) /\ \E p \in ProfileInputs : Begin(t, "updateUserProfile", p)
ApplyNewConnections(t) ==
  FreeSlot(t, pc) /\ \E c \in ConnectionInputs : Begin(t, "applyNewConnections", c)
SaveReflectionSession(t) ==
  FreeSlot(t, pc) /\ \E s \in ReflectionInputs : Begin(t, "saveReflectionSession", s)

\* initializeKnowledgeGraph: fs.access, and on ENOENT the default document
\* is saved.
InitializeKnowledgeGraph(t) ==
  /\ FreeSlot(t, pc)
  /\ started < MaxOps
  /\ started' = started + 1
  /\ clock' = clock + 1
  /\ op' = [op EXCEPT ![t] = "initialize"]
  /\ arg' = [arg EXCEPT ![t] = Null]
  /\ IF kgExists
     THEN /\ outcome' = [outcome EXCEPT ![t] = "ok"]
          /\ done' = Append(done, [op |-> "initialize", arg |-> Null, ok |-> TRUE])
          /\ UNCHANGED <<graph, pc>>
     ELSE /\ graph' = [graph EXCEPT ![t] = Stamp(initialGraph(clock), clock)]
          /\ pc' = [pc EXCEPT ![t] = "writing"]
          /\ outcome' = [outcome EXCEPT ![t] = "running"]
          /\ UNCHANGED done
  /\ UNCHANGED <<kgExists, kgText, logVars, calcVars, clusterVars, planVars, extVars>>

\* saveKnowledgeGraph, second half: fs.writeFile completes and the whole
\* file is replaced; the operation returns.
WriteDoneMerging(t) ==
  /\ pc[t] = "writing"
  /\ kgExists' = TRUE
  /\ kgText' = IF kgExists
               THEN [JSONstringify(graph[t]) EXCEPT !.concepts =
                       kgText.concepts \o
                       SelectSeq(@, LAMBDA c : findIndex(kgText.concepts, c.name) = 0)]
               ELSE JSONstringify(graph[t])
  /\ pc' = [pc EXCEPT ![t] = "idle"]
  /\ outcome' = [outcome EXCEPT ![t] = "ok"]
  /\ done' = Append(done, [op |-> op[t], arg |-> arg[t], ok |-> TRUE])
  /\ graph' = [graph EXCEPT ![t] = NoText]
  /\ UNCHANGED <<clock, op, arg, started, logVars, calcVars, clusterVars, planVars, extVars>>
WriteDone(t) ==
  /\ pc[t] = "writing"
  /\ kgExists' = TRUE
  /\ kgText' = JSONstringify(graph[t])
  /\ pc' = [pc EXCEPT ![t] = "idle"]
  /\ outcome' = [outcome EXCEPT ![t] = "ok"]
  /\ done' = Append(done, [op |-> op[t], arg |-> arg[t], ok |-> TRUE])
  /\ graph' = [graph EXCEPT ![t] = NoText]
  /\ UNCHANGED <<clock, op, arg, started, logVars, calcVars, clusterVars, planVars, extVars>>

\* The parts of the state a specification does not exercise.
StoreIdle ==
  /\ clock = 1 /\ kgExists = FALSE /\ kgText = NoText
  /\ pc = [t \in Tasks |-> "idle"] /\ op = [t \in Tasks |-> "none"]
  /\ arg = [t \in Tasks |-> Null] /\ graph = [t \in Tasks |-> NoText]
  /\ outcome = [t \in Tasks |-> "none"] /\ done = <<>> /\ started = 0
LogIdle ==
  /\ logText = [activities |-> <<>>, last_updated |-> 0] /\ added = <<>>
  /\ logExists = TRUE /\ cacheExists = TRUE
  /\ cacheText = [items |-> <<>>, last_updated |-> 0]
CalcIdle == calcPc = "done" /\ calcIn = <<>> /\ calcOut = Null
ClusterIdle == clPc = "done" /\ clIn = <<>> /\ clOut = <<>>
PlanIdle == plan = <<>> /\ progress = <<>>
UrlIdle ==
  /\ urlPc = "idle" /\ urlIn = "" /\ page = 0 /\ retryCount = 0
  /\ pages = <<>> /\ attempts = 0 /\ fetches = 0
  /\ urlOut = [status |-> "pending", message |-> "",
               value |-> [type |-> "", url |-> "", title |-> "", content |-> ""]]
RsIdle ==
  /\ rsPc = "idle" /\ rsNow = 0 /\ rsDue = <<>> /\ rsTodo = <<>>
  /\ rsSession = <<>> /\ rsOut = Null
ProfIdle ==
  /\ convState = <<>> /\ profileObj = <<>>
  /\ hPc = [h \in Tasks |-> "idle"] /\ hArg = [h \in Tasks |-> <<>>]
  /\ answered = <<>> /\ completions = 0 /\ overlaps = 0 /\ question = <<>>
RfIdle == rfCalls = 0 /\ rfOut = <<>> /\ rfQuestion = <<>>
LpIdle ==
  /\ isRunning = FALSE /\ intervals = <<>> /\ timers = {} /\ listeners = 0
  /\ sockets = <<>> /\ handled = <<>>
ExtIdle == UrlIdle /\ RsIdle /\ ProfIdle /\ RfIdle /\ LpIdle

Init == StoreInit /\ LogIdle /\ CalcIdle /\ ClusterIdle /\ PlanIdle /\ ExtIdle

\* The writers of the concepts array, interleaved at their await points.
ConceptNext ==
  \E t \in Tasks :
    \/ AddConcept(t)
    \/ ApplyNewConnections(t)
    \/ InitializeKnowledgeGraph(t)
    \/ WriteDone(t)

\* Every store operation, each awaited before the next is called: only the
\* first slot is ever used.
SeqTasks == {t \in Tasks : \A u \in Tasks : t <= u}
StoreNext ==
  \E t \in SeqTasks :
    \/ AddConcept(t)
    \/ AddContentItem(t)
    \/ AddReinforcementSession(t)
    \/ AddExplorationSuggestion(t)
    \/ UpdateUserProfile(t)
    \/ ApplyNewConnections(t)
    \/ SaveReflectionSession(t)
    \/ InitializeKnowledgeGraph(t)
    \/ WriteDone(t)

Spec == Init /\ [][ConceptNext]_vars
SpecSeq == Init /\ [][StoreNext]_vars

\* ------------------------------------------------------ the activity log
\* addActivity's retention cap.
MaxActivities == 1000
\* Number of addActivity calls in one behaviour.
MaxAdds == 1002

ActivityInputs == {[type |-> "reinforcement", status |-> "completed"]}

\* array.slice(-n): the last n elements (all of them when there are fewer).
sliceLast(a, n) == IF Len(a) <= n THEN a ELSE SubSeq(a, Len(a) - n + 1, Len(a))
sliceFirst(a, n) == IF Len(a) <= n THEN a ELSE SubSeq(a, 1, n)

\* addActivity, between loadActivityLog and saveActivityLog.
addActivityKeepOldest(log, activity, now) ==
  LET pushed == Append(log.activities, Overlay([timestamp |-> now], activity))
  IN  [log EXCEPT !.activities =
         IF Len(pushed) > MaxActivities THEN sliceFirst(pushed, MaxActivities) ELSE pushed]
addActivityLog(log, activity, now) ==
  LET newActivity == Overlay([timestamp |-> now], activity)
      pushed == Append(log.activities, newActivity)
  IN  [log EXCEPT !.activities =
         IF Len(pushed) > MaxActivities THEN sliceLast(pushed, MaxActivities) ELSE pushed]

\* The activity log as initializeActivityLog leaves it.
LogInit ==
  /\ clock = 1
  /\ logText = [activities |-> <<>>, last_updated |-> 0]
  /\ added = <<>>
  /\ logExists = TRUE /\ cacheExists = TRUE
  /\ cacheText = [items |-> <<>>, last_updated |-> 0]

\* addActivity, awaited: load, push, cap, save (saveActivityLog stamps
\* last_updated).
AddActivity ==
  /\ Len(added) < MaxAdds
  /\ \E activity \in ActivityInputs :
       /\ logText' = [addActivityLog(logText, activity, clock) EXCEPT !.last_updated = clock]
       /\ added' = Append(added, Overlay([timestamp |-> clock], activity))
  /\ clock' = clock + 1
  /\ UNCHANGED <<kgExists, kgText, pc, op, arg, graph, outcome, done, started>>
  /\ UNCHANGED <<logExists, cacheExists, cacheText, calcVars, clusterVars, planVars, extVars>>

InitLog == LogInit /\ StoreIdle /\ CalcIdle /\ ClusterIdle /\ PlanIdle /\ ExtIdle
SpecLog == InitLog /\ [][AddActivity]_vars

\* ------------------------------------------- spaced-repetition arithmetic
\* How far past [0, 1] the scores and confidences tried reach, in tenths.
MaxOver == 2
\* Latest time at which a schedule is computed.
MaxNow == 3

min(a, b) == IF a <= b THEN a ELSE b
max(a, b) == IF a >= b THEN a ELSE b
\* A value used in arithmetic: null counts as 0, undefined and NaN as NaN.
toNumber(v) ==
  CASE v[1] = "number" -> v
    [] v[1] = "null" -> Num(0)
    [] OTHER -> NaN

\* calculateNewConfidence.  The weights are in tenths, so performanceScore
\* is scaled by 10 and newConfidence by 100; Math.min and Math.max return
\* NaN for a NaN argument.
calculateNewConfidenceUnclamped(currentConfidence, analysis) ==
  LET cur == toNumber(currentConfidence)
      acc == toNumber(Get(analysis, "accuracy_score"))
      comp == toNumber(Get(analysis, "completeness_score"))
  IN  IF ~IsNum(cur) \/ ~IsNum(acc) \/ ~IsNum(comp) THEN NaN
      ELSE Num((cur[2] * 7 * 10 + (acc[2] * 6 + comp[2] * 4) * 3) \div 100)
calculateNewConfidence(currentConfidence, analysis) ==
  LET cur == toNumber(currentConfidence)
      acc == toNumber(Get(analysis, "accuracy_score"))
      comp == toNumber(Get(analysis, "completeness_score"))
      accuracyWeight == 6
      completenessWeight == 4
      learningRate == 3
  IN  IF ~IsNum(cur) \/ ~IsNum(acc) \/ ~IsNum(comp) THEN NaN
      ELSE LET performanceScore ==
                 acc[2] * accuracyWeight + comp[2] * completenessWeight
               newConfidence ==
                 cur[2] * (10 - learningRate) * 10 + performanceScore * learningRate
           IN  Num(max(0, min(ConfOne * 100, newConfidence)) \div 100)

\* a >= b for a value a and a number b: false when a is NaN or undefined.
atLeast(v, b) == IsNum(toNumber(v)) /\ toNumber(v)[2] >= b
above(v, b) == IsNum(toNumber(v)) /\ toNumber(v)[2] > b
Tenths(k) == (k * ConfOne) \div 10
DaySeconds == 24 * 60 * 60

\* calculateNextReinforcement at time now.
calculateNextReinforcementStrict(confidence, now) ==
  LET daysToAdd ==
        IF above(confidence, Tenths(9)) THEN 30
        ELSE IF above(confidence, Tenths(8)) THEN 14
        ELSE IF above(confidence, Tenths(6)) THEN 7
        ELSE IF above(confidence, Tenths(4)) THEN 3
        ELSE 1
  IN  Date(now + daysToAdd * DaySeconds)
calculateNextReinforcement(confidence, now) ==
  LET daysToAdd ==
        IF atLeast(confidence, Tenths(9)) THEN 30
        ELSE IF atLeast(confidence, Tenths(8)) THEN 14
        ELSE IF atLeast(confidence, Tenths(6)) THEN 7
        ELSE IF atLeast(confidence, Tenths(4)) THEN 3
        ELSE 1
  IN  Date(now + daysToAdd * DaySeconds)

\* ContentProcessor.calculateReinforcementSchedule at time now: the table
\* used when a concept is extracted has three buckets.
calculateReinforcementSchedule(confidence, now) ==
  LET daysToAdd ==
        IF atLeast(confidence, Tenths(8)) THEN 14
        ELSE IF atLeast(confidence, Tenths(6)) THEN 7
        ELSE 3
  IN  Date(now + daysToAdd * DaySeconds)

\* Scores and confidences from -0.2 to 1.2 in tenths, the LLM being free to
\* answer outside [0, 1] or to leave a score out.
ScoreGrid == {Num(Tenths(k)) : k \in (0 - MaxOver)..(10 + MaxOver)}
ScoreInputsLLM == ScoreGrid \cup {Undefined}
\* Confidences on, just below and just above every tenth, and the values a
\* stored confidence can have besides numbers.
ConfidenceInputs ==
  ScoreGrid \cup {Num(v[2] - 1) : v \in ScoreGrid} \cup {Num(v[2] + 1) : v \in ScoreGrid}
    \cup {Undefined, Null, NaN}

CalcInit == clock = 1 /\ calcPc = "ready" /\ calcIn = <<>> /\ calcOut = Null

\* Time passes.
Tick ==
  /\ calcPc = "ready" /\ clock < MaxNow
  /\ clock' = clock + 1
  /\ UNCHANGED <<kgExists, kgText, pc, op, arg, graph, outcome, done, started>>
  /\ UNCHANGED <<logVars, calcVars, clusterVars, planVars, extVars>>

\* One call of calculateNewConfidence.
CalcNewConfidence ==
  /\ calcPc = "ready"
  /\ \E cur \in ScoreGrid \cup {Null}, acc \in ScoreInputsLLM, comp \in ScoreInputsLLM :
       LET analysis ==
             JsonObject([accuracy_score |-> acc, completeness_score |-> comp])
       IN  /\ calcIn' = [fn |-> "calculateNewConfidence",
                         currentConfidence |-> cur, analysis |-> analysis]
           /\ calcOut' = calculateNewConfidence(cur, analysis)
  /\ calcPc' = "done"
  /\ UNCHANGED <<storeVars, logVars, clusterVars, planVars, extVars>>

\* One call of calculateNextReinforcement.
CalcNextReinforcement ==
  /\ calcPc = "ready"
  /\ \E confidence \in ConfidenceInputs :
       /\ calcIn' = [fn |-> "calculateNextReinforcement",
                     confidence |-> confidence, now |-> clock]
       /\ calcOut' = calculateNextReinforcement(confidence, clock)
  /\ calcPc' = "done"
  /\ UNCHANGED <<storeVars, logVars, clusterVars, planVars, extVars>>

\* extractKnowledge scheduling one extracted concept.
CalcReinforcementSchedule ==
  /\ calcPc = "ready"
  /\ \E confidence \in ConfidenceInputs :
       /\ calcIn' = [fn |-> "calculateReinforcementSchedule",
                     confidence |-> confidence, now |-> clock]
       /\ calcOut' = calculateReinforcementSchedule(confidence, clock)
  /\ calcPc' = "done"
  /\ UNCHANGED <<storeVars, logVars, clusterVars, planVars, extVars>>

CalcNext ==
  Tick \/ CalcNewConfidence \/ CalcNextReinforcement \/ CalcReinforcementSchedule
InitCalc == CalcInit /\ StoreIdle /\ LogIdle /\ ClusterIdle /\ PlanIdle /\ ExtIdle
SpecCalc == InitCalc /\ [][CalcNext]_vars

\* ------------------------------------------------------- cluster walk
\* Longest connections list tried.
MaxConn == 2

\* Array.sort((a, b) => b[f] - a[f]): stable, descending by field f.
RECURSIVE insertDesc(_, _, _)
insertDesc(sorted, x, f) ==
  IF sorted = <<>> THEN <<x>>
  ELSE IF Head(sorted)[f] >= x[f]
       THEN <<Head(sorted)>> \o insertDesc(Tail(sorted), x, f)
       ELSE <<x>> \o sorted
RECURSIVE sortDesc(_, _)
sortDesc(s, f) ==
  IF s = <<>> THEN <<>>
  ELSE insertDesc(sortDesc(SubSeq(s, 1, Len(s) - 1), f), s[Len(s)], f)

connectionsOf(concept) ==
  IF "connections" \in DOMAIN concept THEN concept.connections ELSE <<>>

\* buildCluster's for loop over the current concept's connections: a name
\* not yet visited that names a concept joins the cluster and the queue.
RECURSIVE visitConnections(_, _, _)
visitConnections(connections, st, allConcepts) ==
  IF connections = <<>> THEN st
  ELSE LET connectionName == Head(connections)
           found == findIndex(allConcepts, connectionName)
           st1 == IF connectionName \notin st.visited /\ found >= 1
                  THEN [cluster |-> Append(st.cluster, allConcepts[found]),
                        queue |-> Append(st.queue, allConcepts[found]),
                        visited |-> st.visited \cup {connectionName}]
                  ELSE st
       IN  visitConnections(Tail(connections), st1, allConcepts)

\* buildCluster's while loop.
RECURSIVE drainQueue(_, _)
drainQueue(st, allConcepts) ==
  IF st.queue = <<>> THEN st
  ELSE LET current == Head(st.queue)
       IN  drainQueue(visitConnections(connectionsOf(current),
                                       [st EXCEPT !.queue = Tail(@)], allConcepts),
                      allConcepts)

\* buildCluster: the cluster found and the visited set it leaves.
buildCluster(startConcept, allConcepts, visited) ==
  drainQueue([cluster |-> <<startConcept>>, queue |-> <<startConcept>>,
              visited |-> visited \cup {startConcept.name}], allConcepts)

\* findCentralConcepts: the three concepts with most connections inside
\* the cluster.
findCentralConcepts(cluster) ==
  LET connectionCounts ==
        [i \in 1..Len(cluster) |->
           [name |-> cluster[i].name,
            connections |->
              Cardinality({j \in 1..Len(connectionsOf(cluster[i])) :
                             findIndex(cluster, connectionsOf(cluster[i])[j]) >= 1})]]
      ranked == sortDesc(connectionCounts, "connections")
  IN  [i \in 1..min(3, Len(ranked)) |-> ranked[i].name]

\* identifyKnowledgeClusters' for loop from concept i on.
RECURSIVE identifyFrom(_, _, _, _)
identifyFrom(i, concepts, visited, clusters) ==
  IF i > Len(concepts) THEN clusters
  ELSE IF concepts[i].name \in visited
       THEN identifyFrom(i + 1, concepts, visited, clusters)
       ELSE LET r == buildCluster(concepts[i], concepts, visited)
                cluster == r.cluster
                clusters1 ==
                  IF Len(cluster) > 1
                  THEN Append(clusters,
                              [concepts |-> [k \in 1..Len(cluster) |-> cluster[k].name],
                               size |-> Len(cluster),
                               central_concepts |-> findCentralConcepts(cluster)])
                  ELSE clusters
            IN  identifyFrom(i + 1, concepts, r.visited, clusters1)

identifyKnowledgeClusters(concepts) ==
  sortDesc(identifyFrom(1, concepts, {}, <<>>), "size")

\* Concept arrays with pairwise distinct names; a connections list may be
\* absent, and may name a concept that is not in the array ("Z").
ClusterNames == {"A", "B", "C"}
ConnLists ==
  UNION {[1..n -> ClusterNames \cup {"Z"}] : n \in 0..MaxConn}
ConnChoices ==
  {[has |-> FALSE, list |-> <<>>]} \cup {[has |-> TRUE, list |-> l] : l \in ConnLists}
mkConcept(n, choice) ==
  IF choice.has THEN [name |-> n, confidence |-> Num(Tenths(5)), connections |-> choice.list]
  ELSE [name |-> n, confidence |-> Num(Tenths(5))]
ClusterOrders(n) ==
  {o \in [1..n -> ClusterNames] : \A i, j \in 1..n : i # j => o[i] # o[j]}

ClusterInit ==
  /\ clPc = "ready"
  /\ \E n \in 0..Cardinality(ClusterNames) :
       \E order \in ClusterOrders(n) :
         \E choice \in [1..n -> ConnChoices] :
           clIn = [i \in 1..n |-> mkConcept(order[i], choice[i])]
  /\ clOut = <<>>

\* One call of identifyKnowledgeClusters.
IdentifyKnowledgeClusters ==
  /\ clPc = "ready"
  /\ clOut' = identifyKnowledgeClusters(clIn)
  /\ clPc' = "done"
  /\ UNCHANGED <<clIn, storeVars, logVars, calcVars, planVars, extVars>>

InitCluster == ClusterInit /\ StoreIdle /\ LogIdle /\ CalcIdle /\ PlanIdle /\ ExtIdle
SpecCluster == InitCluster /\ [][IdentifyKnowledgeClusters]_vars

\* ------------------------------------------------- concepts due for review
\* !v for the values a stored field can have.
falsy(v) == v \in {Null, Undefined, NaN, Num(0)}

\* new Date(concept.reinforcement_schedule) <= now.
dateAtMost(v, now) == v[1] = "date" /\ v[2] <= now

\* getConceptsForReinforcement's filter over the loaded concepts.
getConceptsForReinforcementStrict(concepts, now) ==
  SelectSeq(concepts, LAMBDA concept :
    \/ falsy(Get(concept, "reinforcement_schedule"))
    \/ (Get(concept, "reinforcement_schedule")[1] = "date"
          /\ Get(concept, "reinforcement_schedule")[2] < now))
getConceptsForReinforcementFilter(concepts, now) ==
  SelectSeq(concepts, LAMBDA concept :
    \/ falsy(Get(concept, "reinforcement_schedule"))
    \/ dateAtMost(Get(concept, "reinforcement_schedule"), now))

\* Concepts as processUserAnswer and extractKnowledge hand them to
\* addConcept: with a reinforcement_schedule that is a time, null or left out.
ScheduleInputs == {Null, Undefined} \cup {Date(k) : k \in 1..(MaxOps + 1)}
ScheduledConceptInputs ==
  {[name |-> n, confidence |-> Num(5000), reinforcement_schedule |-> r] :
     n \in Names, r \in ScheduleInputs}

AddScheduledConcept(t) ==
  FreeSlot(t, pc) /\ \E c \in ScheduledConceptInputs : Begin(t, "addConcept", c)

\* getConceptsForReinforcement: await loadKnowledgeGraph() (a failed read is
\* re-thrown), new Date(), filter. Nothing is saved.
GetConceptsForReinforcement(t) ==
  /\ FreeSlot(t, pc)
  /\ started < MaxOps
  /\ started' = started + 1
  /\ clock' = clock + 1
  /\ op' = [op EXCEPT ![t] = "getConceptsForReinforcement"]
  /\ arg' = [arg EXCEPT ![t] = Null]
  /\ LET r == loadKnowledgeGraph(kgExists, kgText)
     IN  IF r.ok
         THEN /\ outcome' = [outcome EXCEPT ![t] = "ok"]
              /\ done' = Append(done,
                    [op |-> "getConceptsForReinforcement", arg |-> Null, ok |-> TRUE,
                     now |-> clock,
                     result |-> getConceptsForReinforcementFilter(r.graph.concepts, clock)])
         ELSE /\ outcome' = [outcome EXCEPT ![t] = "error"]
              /\ done' = Append(done,
                    [op |-> "getConceptsForReinforcement", arg |-> Null, ok |-> FALSE])
  /\ UNCHANGED <<kgExists, kgText, pc, graph, logVars, calcVars, clusterVars, planVars, extVars>>

\* loadKnowledgeGraph called on its own: readFile and JSON.parse in a try
\* whose catch logs and re-throws. Nothing is written.
LoadKnowledgeGraph(t) ==
  /\ FreeSlot(t, pc)
  /\ started < MaxOps
  /\ started' = started + 1
  /\ clock' = clock + 1
  /\ op' = [op EXCEPT ![t] = "loadKnowledgeGraph"]
  /\ arg' = [arg EXCEPT ![t] = Null]
  /\ LET r == loadKnowledgeGraph(kgExists, kgText)
     IN  IF r.ok
         THEN /\ outcome' = [outcome EXCEPT ![t] = "ok"]
              /\ done' = Append(done,
                    [op |-> "loadKnowledgeGraph", arg |-> Null, ok |-> TRUE,
                     now |-> clock, result |-> r.graph])
         ELSE /\ outcome' = [outcome EXCEPT ![t] = "error"]
              /\ done' = Append(done,
                    [op |-> "loadKnowledgeGraph", arg |-> Null, ok |-> FALSE])
  /\ UNCHANGED <<kgExists, kgText, pc, graph, logVars, calcVars, clusterVars, planVars, extVars>>

DueNext ==
  \E t \in SeqTasks :
    \/ AddScheduledConcept(t)
    \/ GetConceptsForReinforcement(t)
    \/ LoadKnowledgeGraph(t)
    \/ WriteDone(t)
SpecDue == Init /\ [][DueNext]_vars

\* ------------------------------------------------- connection merging
\* mapNewConnections hands applyConnections the concepts just extracted
\* (their connections lists are the LLM's) and the connections the LLM
\* proposed for them; a proposed name need not be a stored concept ("Z").
NewConceptInputs ==
  {<<[name |-> "A", confidence |-> Num(5000)]>>,
   <<[name |-> "A", confidence |-> Num(5000)], [name |-> "B", confidence |-> Num(5000)]>>,
   <<[name |-> "A", confidence |-> Num(5000), connections |-> <<"B">>]>>,
   <<[name |-> "B", confidence |-> Num(5000), connections |-> <<"Z", "Z">>]>>}
ProposedInputs ==
  {<<>>,
   <<[from_concept |-> "A", to_concept |-> "B"]>>,
   <<[from_concept |-> "B", to_concept |-> "A"], [from_concept |-> "A", to_concept |-> "B"]>>,
   <<[from_concept |-> "A", to_concept |-> "Z"]>>}

ApplyConnections(t) ==
  /\ FreeSlot(t, pc)
  /\ \E n \in NewConceptInputs, c \in ProposedInputs :
       Begin(t, "applyConnections", [newConcepts |-> n, connections |-> c])

\* mapNewConnections and discoverHiddenConnections, one call after another.
ConnNext ==
  \E t \in SeqTasks :
    \/ ApplyConnections(t)
    \/ ApplyNewConnections(t)
    \/ WriteDone(t)
SpecConn == Init /\ [][ConnNext]_vars

\* ------------------------------------------------- features and the LLM
\* What a chat completion can come to: the call fails, the content is not
\* JSON, or it is a JSON object (with or without the keys asked for).
LLMObjects ==
  {[note |-> "none"],
   [questions |-> <<>>],
   [questions |-> <<[id |-> "1", type |-> "short_answer"], [id |-> "2", type |-> "true_false"],
                    [id |-> "3", type |-> "multiple_choice"]>>],
   [prompts |-> <<[question |-> "q"]>>],
   [keyInsights |-> <<"insight">>, confidenceLevel |-> Num(Tenths(9))],
   [subtopics |-> <<[title |-> "one"], [title |-> "two"], [title |-> "three"], [title |-> "four"]>>],
   [concepts |-> <<[name |-> "A", confidence |-> Num(Tenths(5))]>>, insights |-> <<>>],
   [knowledge_gaps |-> <<>>, exploration_suggestions |-> <<>>],
   [connections |-> <<[to_concept |-> "B", strength |-> Num(Tenths(7))]>>],
   [accuracy_score |-> Num(ConfOne), completeness_score |-> Num(Tenths(5))]}
LLMOutcomes ==
  {[kind |-> "error", value |-> <<>>], [kind |-> "invalid", value |-> <<>>]}
    \cup {[kind |-> "json", value |-> v] : v \in LLMObjects}

\* What an async call settles to.
Returned(v) == [threw |-> FALSE, value |-> v]
Thrown == [threw |-> TRUE, value |-> <<>>]

\* getJSONCompletion (ESM client): the parsed object, or it throws when the
\* call fails or the content is not valid JSON.
getJSONCompletion(llm) ==
  IF llm.kind = "json" THEN Returned(llm.value) ELSE Thrown

\* OpenAIClient.generateStructuredResponse: JSON.parse(content) inside a
\* try whose catch logs and re-throws.
generateStructuredResponse(llm) ==
  IF llm.kind = "json" THEN Returned(JSONparse(llm.value)) ELSE Thrown

\* generateQuiz: try { metadata added to the answer } catch { the
\* two-question quiz }. quiz.questions.length throws inside the try when
\* the answer has no questions.
fallbackQuiz(lesson, now) ==
  [lessonTitle |-> lesson.title,
   questions |-> <<[id |-> "1", type |-> "short_answer", difficulty |-> 2],
                   [id |-> "2", type |-> "true_false", difficulty |-> 1]>>,
   createdAt |-> Date(now), totalQuestions |-> 2, estimatedTime |-> 4]
generateQuizRethrow(lesson, llm, now) ==
  LET r == getJSONCompletion(llm)
      ok == ~r.threw /\ "questions" \in DOMAIN r.value
  IN  IF ok
      THEN Returned(Overlay(r.value,
             [lessonTitle |-> lesson.title, createdAt |-> Date(now),
              totalQuestions |-> Len(r.value.questions),
              estimatedTime |-> Len(r.value.questions) * 2]))
      ELSE Thrown
generateQuiz(lesson, llm, now) ==
  LET r == getJSONCompletion(llm)
  IN  IF ~r.threw /\ "questions" \in DOMAIN r.value
      THEN Returned(Overlay(r.value,
             [lessonTitle |-> lesson.title, createdAt |-> Date(now),
              totalQuestions |-> Len(r.value.questions),
              estimatedTime |-> Len(r.value.questions) * 2]))
      ELSE Returned(fallbackQuiz(lesson, now))

\* promptReflection: the answer's prompts, or the four default prompts.
defaultPrompts ==
  <<[question |-> "most interesting"], [question |-> "connect to what you knew"],
    [question |-> "apply in real life"], [question |-> "learn more about"]>>
promptReflection(lesson, quizResults, llm, now) ==
  LET r == getJSONCompletion(llm)
  IN  Returned([lessonTitle |-> lesson.title,
                prompts |-> IF r.threw THEN defaultPrompts ELSE Get(r.value, "prompts"),
                quizPerformance |-> quizResults.percentage,
                createdAt |-> Date(now)])

\* processReflection: the answer as insights, or the default insights.
defaultInsights ==
  [keyInsights |-> <<"Learner engaged with the material">>,
   connections |-> <<"Made some connections to existing knowledge">>,
   futureInterests |-> <<"Expressed interest in learning more">>,
   confidenceLevel |-> Num(Tenths(7)),
   learningPatterns |-> <<"Active reflection and engagement">>,
   summary |-> "Learner demonstrated engagement and reflection on the material"]
processReflection(responses, reflectionSession, llm, now) ==
  LET r == getJSONCompletion(llm)
  IN  Returned([sessionId |-> reflectionSession.lessonTitle,
                insights |-> IF r.threw THEN defaultInsights ELSE r.value,
                responses |-> responses,
                processedAt |-> Date(now)])

\* planCurriculum: the answer with metadata, or the three-subtopic plan.
defaultPlan(goal, now) ==
  [goal |-> goal,
   subtopics |-> <<[title |-> "Introduction", estimatedTime |-> 5],
                   [title |-> "Core Concepts", estimatedTime |-> 8],
                   [title |-> "Practical Applications", estimatedTime |-> 7]>>,
   totalEstimatedTime |-> 20,
   learningPath |-> "Progressive learning from basics to applications",
   createdAt |-> Date(now), currentSubtopic |-> 0, completedSubtopics |-> <<>>]
planCurriculum(goal, llm, now) ==
  LET r == getJSONCompletion(llm)
  IN  IF r.threw THEN Returned(defaultPlan(goal, now))
      ELSE Returned(Overlay(r.value,
             [goal |-> goal, createdAt |-> Date(now),
              currentSubtopic |-> 0, completedSubtopics |-> <<>>]))

\* processContent: extractKnowledge awaits openai.extractConcepts with no
\* try around it, then maps over extraction.concepts.
processContent(llm, now) ==
  LET extraction == generateStructuredResponse(llm)
  IN  IF extraction.threw \/ "concepts" \notin DOMAIN extraction.value THEN Thrown
      ELSE Returned([concepts |->
             [i \in 1..Len(extraction.value.concepts) |->
                Overlay(extraction.value.concepts[i],
                  [last_reinforced |-> Null,
                   reinforcement_schedule |->
                     calculateReinforcementSchedule(
                       Get(extraction.value.concepts[i], "confidence"), now)])]])

\* generateExplorationSuggestions: openai.identifyKnowledgeGaps with no try
\* around it, then loops over analysis.knowledge_gaps and
\* analysis.exploration_suggestions.
generateExplorationSuggestions(llm) ==
  LET analysis == generateStructuredResponse(llm)
  IN  IF analysis.threw
         \/ "knowledge_gaps" \notin DOMAIN analysis.value
         \/ "exploration_suggestions" \notin DOMAIN analysis.value
      THEN Thrown
      ELSE Returned([knowledgeGaps |-> analysis.value.knowledge_gaps,
                     explorationSuggestions |-> analysis.value.exploration_suggestions])

\* mapNewConnections: one openai.findConceptConnections call per new
\* concept, none of them in a try; with no new concept the LLM is not asked.
mapNewConnections(newConcepts, llm) ==
  LET connections == generateStructuredResponse(llm)
  IN  IF newConcepts = <<>> THEN Returned([connections |-> <<>>])
      ELSE IF connections.threw \/ "connections" \notin DOMAIN connections.value
      THEN Thrown
      ELSE Returned([connections |->
             [i \in 1..Len(connections.value.connections) |->
                Overlay(connections.value.connections[i],
                        [from_concept |-> newConcepts[1].name])]])

\* processUserAnswer: the concept must be stored; openai.analyzeUserResponse
\* is awaited with no try around it.
processUserAnswer(concept, found, llm) ==
  LET analysis == generateStructuredResponse(llm)
  IN  IF ~found \/ analysis.threw THEN Thrown
      ELSE Returned([analysis |-> analysis.value,
                     newConfidence |->
                       calculateNewConfidence(concept.confidence, analysis.value)])

Lessons == {[title |-> "graphs"], [title |-> "sets"]}
QuizResultInputs == {[percentage |-> 50], [percentage |-> 100]}

\* One feature call, the LLM answering in any of the ways it can.
Feature(fn, a, llm, result) ==
  /\ calcIn' = [fn |-> fn, arg |-> a, llm |-> llm, now |-> clock]
  /\ calcOut' = result
  /\ calcPc' = "done"
  /\ UNCHANGED <<storeVars, logVars, clusterVars, planVars, extVars>>

GenerateQuiz ==
  calcPc = "ready" /\ \E lesson \in Lessons, llm \in LLMOutcomes :
    Feature("generateQuiz", lesson, llm, generateQuiz(lesson, llm, clock))
PromptReflection ==
  calcPc = "ready" /\ \E lesson \in Lessons, q \in QuizResultInputs, llm \in LLMOutcomes :
    Feature("promptReflection", lesson, llm, promptReflection(lesson, q, llm, clock))
ProcessReflection ==
  calcPc = "ready" /\ \E lesson \in Lessons, llm \in LLMOutcomes :
    Feature("processReflection", lesson, llm,
            processReflection(<<"answer">>, [lessonTitle |-> lesson.title], llm, clock))
PlanCurriculum ==
  calcPc = "ready" /\ \E lesson \in Lessons, llm \in LLMOutcomes :
    Feature("planCurriculum", lesson.title, llm, planCurriculum(lesson.title, llm, clock))
ProcessContent ==
  calcPc = "ready" /\ \E c \in ContentInputs, llm \in LLMOutcomes :
    Feature("processContent", c, llm, processContent(llm, clock))
GenerateExplorationSuggestions ==
  calcPc = "ready" /\ \E llm \in LLMOutcomes :
    Feature("generateExplorationSuggestions", Null, llm, generateExplorationSuggestions(llm))
MapNewConnections ==
  calcPc = "ready" /\ \E n \in NewConceptInputs \cup {<<>>}, llm \in LLMOutcomes :
    Feature("mapNewConnections", n, llm, mapNewConnections(n, llm))
ProcessUserAnswer ==
  calcPc = "ready" /\ \E n \in Names, found \in BOOLEAN, llm \in LLMOutcomes :
    Feature("processUserAnswer", [name |-> n, found |-> found], llm,
            processUserAnswer([name |-> n, confidence |-> Num(Tenths(5))], found, llm))

FeatureNext ==
  \/ Tick
  \/ GenerateQuiz \/ PromptReflection \/ ProcessReflection \/ PlanCurriculum
  \/ ProcessContent \/ GenerateExplorationSuggestions
  \/ MapNewConnections \/ ProcessUserAnswer
SpecFeature == InitCalc /\ [][FeatureNext]_vars

\* ------------------------------------------------- initialize
\* The default documents of initializeActivityLog and
\* initializeContentCache.
initialLog(now) == [activities |-> <<>>, last_updated |-> now]
initialCache(now) == [items |-> <<>>, last_updated |-> now]

\* initializeX: fs.access, and only on ENOENT the default is saved.
initializeFileAlways(exists, text, default) == default
initializeFile(exists, text, default) == IF exists THEN text ELSE default

\* The three files, each there or not, before initialize has ever run.
FilesInit ==
  /\ logExists \in BOOLEAN /\ cacheExists \in BOOLEAN
  /\ logText = IF logExists THEN initialLog(0) ELSE NoText
  /\ cacheText = IF cacheExists THEN initialCache(0) ELSE NoText
  /\ added = <<>>

\* initialize(), awaited to its end: mkdir, then the three initializeX in
\* turn; each save stamps last_updated.
Initialize(t) ==
  /\ FreeSlot(t, pc)
  /\ started < MaxOps
  /\ started' = started + 1
  /\ clock' = clock + 1
  /\ op' = [op EXCEPT ![t] = "initializeAll"]
  /\ arg' = [arg EXCEPT ![t] = Null]
  /\ kgText' = initializeFile(kgExists, kgText,
                              JSONstringify(Stamp(initialGraph(clock), clock)))
  /\ logText' = initializeFile(logExists, logText, initialLog(clock))
  /\ cacheText' = initializeFile(cacheExists, cacheText, initialCache(clock))
  /\ kgExists' = TRUE /\ logExists' = TRUE /\ cacheExists' = TRUE
  /\ outcome' = [outcome EXCEPT ![t] = "ok"]
  /\ done' = Append(done, [op |-> "initializeAll", arg |-> Null, ok |-> TRUE])
  /\ UNCHANGED <<pc, graph, added, calcVars, clusterVars, planVars, extVars>>

\* addActivity, awaited to its end: loadActivityLog re-throws when the file
\* cannot be read; else push, cap, stamp, save.
LogActivity(t) ==
  /\ FreeSlot(t, pc)
  /\ started < MaxOps
  /\ started' = started + 1
  /\ clock' = clock + 1
  /\ op' = [op EXCEPT ![t] = "addActivity"]
  /\ \E activity \in ActivityInputs :
       /\ arg' = [arg EXCEPT ![t] = activity]
       /\ IF logExists
          THEN /\ logText' = [addActivityLog(logText, activity, clock)
                                EXCEPT !.last_updated = clock]
               /\ added' = Append(added, Overlay([timestamp |-> clock], activity))
               /\ outcome' = [outcome EXCEPT ![t] = "ok"]
               /\ done' = Append(done, [op |-> "addActivity", arg |-> activity, ok |-> TRUE])
          ELSE /\ outcome' = [outcome EXCEPT ![t] = "error"]
               /\ done' = Append(done, [op |-> "addActivity", arg |-> activity, ok |-> FALSE])
               /\ UNCHANGED <<logText, added>>
  /\ UNCHANGED <<kgExists, kgText, pc, graph, logExists, cacheExists, cacheText>>
  /\ UNCHANGED <<calcVars, clusterVars, planVars, extVars>>

InitFiles == StoreInit /\ FilesInit /\ CalcIdle /\ ClusterIdle /\ PlanIdle /\ ExtIdle
InitializeNext ==
  \E t \in SeqTasks :
    \/ Initialize(t)
    \/ AddConcept(t)
    \/ AddContentItem(t)
    \/ LogActivity(t)
    \/ WriteDone(t)
SpecInit == InitFiles /\ [][InitializeNext]_vars

\* ------------------------------------------------- unreadable store file
\* The store as a mutator may find it: the file absent, holding a document,
\* or holding text that does not parse.
StoreInitAnyFile ==
  /\ clock = 1
  /\ kgExists \in BOOLEAN
  /\ kgText \in (IF kgExists THEN {JSONstringify(initialGraph(0)), Corrupt} ELSE {NoText})
  /\ pc = [t \in Tasks |-> "idle"]
  /\ op = [t \in Tasks |-> "none"]
  /\ arg = [t \in Tasks |-> Null]
  /\ graph = [t \in Tasks |-> NoText]
  /\ outcome = [t \in Tasks |-> "none"]
  /\ done = <<>>
  /\ started = 0

InitAnyFile == StoreInitAnyFile /\ LogIdle /\ CalcIdle /\ ClusterIdle /\ PlanIdle /\ ExtIdle
\* The five mutators of the knowledge-graph file, one call after another.
MutatorNext ==
  \E t \in SeqTasks :
    \/ AddConcept(t)
    \/ AddContentItem(t)
    \/ AddReinforcementSession(t)
    \/ AddExplorationSuggestion(t)
    \/ UpdateUserProfile(t)
    \/ WriteDone(t)
SpecFail == InitAnyFile /\ [][MutatorNext]_vars

\* ------------------------------------------------- learning plan
\* Most subtopics a plan has.
MaxSubtopics == 4

\* The plan planCurriculum returns, with n subtopics (named by their index).
newPlan(n) ==
  [subtopics |-> [i \in 1..n |-> [title |-> i - 1]],
   currentSubtopic |-> 0,
   completedSubtopics |-> <<>>]

\* getNextSubtopic: plan.subtopics[plan.currentSubtopic], or null once
\* currentSubtopic has reached the length.
getNextSubtopic(p) ==
  IF p.currentSubtopic >= Len(p.subtopics) THEN Null
  ELSE <<"subtopic", p.subtopics[p.currentSubtopic + 1].title>>

\* markSubtopicCompleted
markSubtopicCompleted(p, subtopicIndex) ==
  [p EXCEPT !.completedSubtopics = pushUnique(@, subtopicIndex),
            !.currentSubtopic = subtopicIndex + 1]

\* getProgress; Math.round of a non-negative ratio.
getProgress(p) ==
  LET total == Len(p.subtopics)
      completed == Len(p.completedSubtopics)
  IN  [total |-> total,
       completed |-> completed,
       current |-> p.currentSubtopic,
       percentage |-> (200 * completed + total) \div (2 * total),
       isComplete |-> completed = total,
       nextSubtopic |-> getNextSubtopic(p)]

PlanInit ==
  /\ \E n \in 1..MaxSubtopics : plan = newPlan(n)
  /\ progress = <<>>

MarkSubtopicCompleted ==
  /\ \E subtopicIndex \in 0..(Len(plan.subtopics) - 1) :
       plan' = markSubtopicCompleted(plan, subtopicIndex)
  /\ UNCHANGED <<progress, storeVars, logVars, calcVars, clusterVars, extVars>>

GetProgress ==
  /\ progress' = getProgress(plan)
  /\ UNCHANGED <<plan, storeVars, logVars, calcVars, clusterVars, extVars>>

PlanNext == MarkSubtopicCompleted \/ GetProgress
InitPlan == PlanInit /\ StoreIdle /\ LogIdle /\ CalcIdle /\ ClusterIdle /\ ExtIdle
SpecPlan == InitPlan /\ [][PlanNext]_vars

\* ------------------------------------------------- processUrl (web pages)
\* ContentProcessor.processUrl for a URL that isYouTubeUrl rejects.  Every
\* awaited call either resolves or rejects; the steps are the awaits.
maxRetries == 2
Urls == {"https://a.example/post", "https://b.example/feed"}
Titles == {"", "T"}

closePageNever(ps, pg, ok) == ps

\* page.close() on `page` (0 is null: nothing to close).
closePage(ps, pg, ok) ==
  IF pg = 0 THEN ps
  ELSE [ps EXCEPT ![pg] = IF ok THEN "closed" ELSE "closeRejected"]

\* The catch block's bookkeeping: where the loop goes with the new count.
afterCatch(count) == IF count >= maxRetries THEN "fetch" ELSE "wait"

\* title = $('title').text() || 'Untitled'
fallbackTitle(t) == IF t = "" THEN "Untitled" ELSE t

webpage(u, title) ==
  [type |-> "webpage", url |-> u, title |-> title, content |-> "text"]

\* The call's outcome: nothing yet, the `content` evaluate produced, the
\* object returned, or the Error thrown.
noPage == [type |-> "", url |-> "", title |-> "", content |-> ""]
urlPending == [status |-> "pending", value |-> noPage, message |-> ""]
urlContent(v) == [status |-> "content", value |-> v, message |-> ""]
urlReturned(v) == [status |-> "returned", value |-> v, message |-> ""]
urlThrown(msg) == [status |-> "thrown", value |-> noPage, message |-> msg]

UrlFrame ==
  UNCHANGED <<storeVars, logVars, calcVars, clusterVars, planVars, rsVars, profVars,
              rfVars, lpVars>>

\* processUrl(url): the locals are initialised.
ProcessUrl ==
  /\ urlPc = "idle"
  /\ \E u \in Urls : urlIn' = u
  /\ urlPc' = "while" /\ page' = 0 /\ retryCount' = 0
  /\ UNCHANGED <<pages, attempts, fetches, urlOut>> /\ UrlFrame

\* while (retryCount < maxRetries) { page = await this.browser.newPage()
NewPage ==
  /\ urlPc = "while"
  /\ IF retryCount < maxRetries
     THEN /\ attempts' = attempts + 1
          /\ \/ /\ pages' = Append(pages, "open")
                /\ page' = Len(pages) + 1
                /\ urlPc' = "setUserAgent"
             \/ /\ urlPc' = "catch"
                /\ UNCHANGED <<pages, page>>
     ELSE /\ urlPc' = "fetch"
          /\ UNCHANGED <<attempts, pages, page>>
  /\ UNCHANGED <<urlIn, retryCount, fetches, urlOut>> /\ UrlFrame

\* One awaited call on the page: it resolves, or rejects into the catch.
PageStep(from, to) ==
  /\ urlPc = from
  /\ urlPc' \in {to, "catch"}
  /\ UNCHANGED <<urlIn, page, retryCount, pages, attempts, fetches, urlOut>>
  /\ UrlFrame

SetUserAgent == urlPc = "setUserAgent" /\ PageStep("setUserAgent", "setExtraHTTPHeaders")
SetExtraHTTPHeaders ==
  urlPc = "setExtraHTTPHeaders" /\ PageStep("setExtraHTTPHeaders", "setViewport")
SetViewport == urlPc = "setViewport" /\ PageStep("setViewport", "goto")
Goto == urlPc = "goto" /\ PageStep("goto", "waitForTimeout")
WaitForTimeout == urlPc = "waitForTimeout" /\ PageStep("waitForTimeout", "evaluate")

\* content = await page.evaluate(...): the title and the final location.
Evaluate ==
  /\ urlPc = "evaluate"
  /\ \/ /\ \E t \in Titles, u \in Urls : urlOut' = urlContent(webpage(u, t))
        /\ urlPc' = "close"
     \/ /\ urlPc' = "catch" /\ UNCHANGED urlOut
  /\ UNCHANGED <<urlIn, page, retryCount, pages, attempts, fetches>>
  /\ UrlFrame

\* await page.close(); page = null; return {...}.  A rejected close is still
\* inside the try: control goes to the catch with page set.
ClosePage ==
  /\ urlPc = "close"
  /\ \/ /\ pages' = closePage(pages, page, TRUE)
        /\ page' = 0
        /\ urlOut' = urlReturned(urlOut.value)
        /\ urlPc' = "done"
     \/ /\ urlPc' = "catch"
        /\ UNCHANGED <<pages, page, urlOut>>
  /\ UNCHANGED <<urlIn, retryCount, attempts, fetches>>
  /\ UrlFrame

\* catch (error) { if (page) { try close } page = null; retryCount++; ... }
Catch ==
  /\ urlPc = "catch"
  /\ \E ok \in BOOLEAN : pages' = closePage(pages, page, ok)
  /\ page' = 0
  /\ retryCount' = retryCount + 1
  /\ urlPc' = afterCatch(retryCount + 1)
  /\ urlOut' = urlPending
  /\ UNCHANGED <<urlIn, attempts, fetches>>
  /\ UrlFrame

\* await new Promise(resolve => setTimeout(resolve, 1000 * retryCount))
Wait ==
  /\ urlPc = "wait"
  /\ urlPc' = "while"
  /\ UNCHANGED <<urlIn, page, retryCount, pages, attempts, fetches, urlOut>>
  /\ UrlFrame

\* The fallback: fetch(url), response.text(), cheerio; any rejection is
\* rethrown as 'Unable to process URL'.
Fetch ==
  /\ urlPc = "fetch"
  /\ fetches' = fetches + 1
  /\ \/ \E t \in Titles : urlOut' = urlReturned(webpage(urlIn, fallbackTitle(t)))
     \/ urlOut' = urlThrown("Unable to process URL")
  /\ urlPc' = "done"
  /\ UNCHANGED <<urlIn, page, retryCount, pages, attempts>>
  /\ UrlFrame

UrlNext ==
  \/ ProcessUrl \/ NewPage \/ SetUserAgent \/ SetExtraHTTPHeaders
  \/ SetViewport \/ Goto \/ WaitForTimeout \/ Evaluate \/ ClosePage
  \/ Catch \/ Wait \/ Fetch
InitUrl ==
  /\ UrlIdle /\ StoreIdle /\ LogIdle /\ CalcIdle /\ ClusterIdle /\ PlanIdle
  /\ RsIdle /\ ProfIdle /\ RfIdle /\ LpIdle
\* Every awaited call settles, so a call that can take a step takes one.
SpecUrl == InitUrl /\ [][UrlNext]_vars /\ WF_vars(UrlNext)

\* ------------------------------------------ generateReinforcementSession
MaxStored == 6
MaxQuestions == 2
SessionSize == 5

\* The concepts the store may hold, by position: never reinforced and with
\* no confidence recorded; reinforced a second ago, with a source; and one
\* that falls due at time 2.
storedConcept(i, kind) ==
  CASE kind = "new" -> [name |-> ToString(i)]
    [] kind = "seen" ->
         [name |-> ToString(i), confidence |-> Num(Tenths(3)),
          last_reinforced |-> Date(0), reinforcement_schedule |-> Date(1),
          sources |-> <<"s">>]
    [] OTHER ->
         [name |-> ToString(i), confidence |-> Num(Tenths(9)),
          last_reinforced |-> Date(0), reinforcement_schedule |-> Date(2)]
StoredKinds == {"new", "seen", "later"}
\* The first `seen` concepts have been reinforced, the others not; the last
\* one is of any kind.
storedKind(i, n, seen, last) ==
  IF i = n THEN last ELSE IF i <= seen THEN "seen" ELSE "new"

\* selectConceptsForSession's score, times ScoreUnit so that thirds of a
\* confidence point and sevenths of a day stay whole numbers.
ScoreUnit == 15120000
score(concept, now) ==
  LET c == Get(concept, "confidence")
      confidence == IF falsy(c) THEN ConfOne \div 2 ELSE c[2]
      last == Get(concept, "last_reinforced")
      weeks == (now - last[2]) * (ScoreUnit \div (7 * DaySeconds))
  IN  (ConfOne - confidence) * 3 * (ScoreUnit \div ConfOne)
        + (IF falsy(last) THEN 2 * ScoreUnit
           ELSE IF weeks < 2 * ScoreUnit THEN weeks ELSE 2 * ScoreUnit)
        + (IF "sources" \in DOMAIN concept /\ Len(concept.sources) > 0
           THEN ScoreUnit \div 2 ELSE 0)

\* selectConceptsForSession: score, sort by score (highest first; the sort
\* is stable), take the first five.
selectConceptsAll(concepts, now) ==
  LET scoredConcepts ==
        [i \in 1..Len(concepts) |->
           [concept |-> concepts[i], score |-> score(concepts[i], now)]]
      sorted == sortDesc(scoredConcepts, "score")
  IN  [i \in 1..Len(sorted) |-> sorted[i].concept]
selectConceptsForSession(concepts, now) ==
  LET scoredConcepts ==
        [i \in 1..Len(concepts) |->
           [concept |-> concepts[i], score |-> score(concepts[i], now)]]
      sorted == sliceFirst(sortDesc(scoredConcepts, "score"), SessionSize)
  IN  [i \in 1..Len(sorted) |-> sorted[i].concept]

\* What generateReinforcementQuestions may settle to: the call fails, the
\* answer has no questions array, or it has zero, one or two questions (a
\* question may name a concept itself).
QuestionOutcomes ==
  {[kind |-> "error", value |-> <<>>],
   [kind |-> "json", value |-> [note |-> "none"]],
   [kind |-> "json", value |-> [questions |-> <<>>]],
   [kind |-> "json", value |->
      [questions |-> <<[question |-> "q1", concept_name |-> "other"]>>]],
   [kind |-> "json", value |->
      [questions |-> <<[question |-> "q1", difficulty |-> "beginner"],
                       [question |-> "q2", difficulty |-> "advanced"]>>]]}

\* generateQuestionsForConcept: questions.questions.map(...) throws when the
\* answer has no questions.
questionsKeepingName(concept, llm, now) ==
  LET r == generateStructuredResponse(llm)
  IN  IF r.threw \/ "questions" \notin DOMAIN r.value THEN Thrown
      ELSE Returned([i \in 1..Len(r.value.questions) |->
             Overlay([concept_name |-> concept.name, concept_id |-> concept.name,
                      created_at |-> Date(now)], r.value.questions[i])])
generateQuestionsForConcept(concept, llm, now) ==
  LET r == generateStructuredResponse(llm)
  IN  IF r.threw \/ "questions" \notin DOMAIN r.value THEN Thrown
      ELSE Returned([i \in 1..Len(r.value.questions) |->
             Overlay(r.value.questions[i],
                     [concept_name |-> concept.name, concept_id |-> concept.name,
                      created_at |-> Date(now)])])

\* shuffleArray: Fisher-Yates with Math.random, so any rearrangement.
Perms(n) == {p \in [1..n -> 1..n] : \A i, j \in 1..n : i # j => p[i] # p[j]}
shuffleArray(array, p) == [i \in 1..Len(array) |-> array[p[i]]]

\* What generateReinforcementSession resolves to: null, or the session.
sessionOrNull(v, isNull) == [threw |-> FALSE, isNull |-> isNull, value |-> v]

\* The knowledge-graph file holds up to MaxStored concepts; the log exists.
RsInit ==
  /\ clock \in 1..MaxNow
  /\ kgExists = TRUE
  /\ \E n \in 0..MaxStored : \E seen \in 0..n : \E last \in StoredKinds :
       kgText = JSONstringify(
         [initialGraph(0) EXCEPT !.concepts =
            [i \in 1..n |-> storedConcept(i, storedKind(i, n, seen, last))]])
  /\ pc = [t \in Tasks |-> "idle"] /\ op = [t \in Tasks |-> "none"]
  /\ arg = [t \in Tasks |-> Null] /\ graph = [t \in Tasks |-> NoText]
  /\ outcome = [t \in Tasks |-> "none"] /\ done = <<>> /\ started = 0

RsFrame ==
  UNCHANGED <<kgExists, kgText, pc, op, arg, graph, outcome, done, started,
              logExists, cacheExists, cacheText, calcVars, clusterVars, planVars,
              urlVars, profVars, rfVars, lpVars>>

\* addActivity as the session generator calls it.
RsAddActivity(activity) ==
  /\ logText' = [addActivityLog(logText, activity, clock) EXCEPT !.last_updated = clock]
  /\ added' = Append(added, Overlay([timestamp |-> clock], activity))

\* generateReinforcementSession up to its for loop.
GenerateReinforcementSession ==
  /\ rsPc = "idle"
  /\ RsAddActivity([type |-> "reinforcement", status |-> "in_progress"])
  /\ clock' = clock + 1
  /\ rsNow' = clock
  /\ LET conceptsToReview ==
           getConceptsForReinforcementFilter(
             loadKnowledgeGraph(kgExists, kgText).graph.concepts, clock)
     IN  /\ rsDue' = conceptsToReview
         /\ IF Len(conceptsToReview) = 0
            THEN /\ rsPc' = "done" /\ rsOut' = sessionOrNull(Null, TRUE)
                 /\ UNCHANGED <<rsTodo, rsSession>>
            ELSE /\ rsPc' = "loop"
                 /\ rsTodo' = selectConceptsForSession(conceptsToReview, clock)
                 /\ rsSession' = [concepts |-> <<>>, questions |-> <<>>,
                                  start_time |-> Date(clock), status |-> "active"]
                 /\ UNCHANGED rsOut
  /\ RsFrame

\* One turn of the for loop: the concept and its questions are pushed
\* together, or the catch logs the error and the loop goes on.
GenerateQuestionsForConcept ==
  /\ rsPc = "loop" /\ rsTodo # <<>>
  /\ \E llm \in QuestionOutcomes :
       LET concept == Head(rsTodo)
           r == generateQuestionsForConcept(concept, llm, clock)
       IN  IF r.threw
           THEN UNCHANGED <<rsSession, logText, added>>
           ELSE /\ Len(rsSession.questions) + Len(r.value) <= MaxQuestions
                /\ rsSession' =
                     [rsSession EXCEPT !.concepts = Append(@, concept),
                                       !.questions = @ \o r.value]
                /\ RsAddActivity([type |-> "reinforcement", status |-> "completed"])
  /\ rsTodo' = Tail(rsTodo)
  /\ UNCHANGED <<clock, rsPc, rsNow, rsDue, rsOut>>
  /\ RsFrame

\* session.questions = this.shuffleArray(session.questions); return session
ReturnSession ==
  /\ rsPc = "loop" /\ rsTodo = <<>>
  /\ \E p \in Perms(Len(rsSession.questions)) :
       /\ rsSession' = [rsSession EXCEPT !.questions = shuffleArray(@, p)]
       /\ rsOut' = sessionOrNull(rsSession', FALSE)
  /\ rsPc' = "done"
  /\ UNCHANGED <<clock, logText, added, rsNow, rsDue, rsTodo>>
  /\ RsFrame

RsNext == GenerateReinforcementSession \/ GenerateQuestionsForConcept \/ ReturnSession
InitRs ==
  /\ RsInit /\ LogIdle /\ CalcIdle /\ ClusterIdle /\ PlanIdle /\ UrlIdle /\ RsIdle
  /\ ProfIdle /\ RfIdle /\ LpIdle
SpecRs == InitRs /\ [][RsNext]_vars

\* ----------------------------------------- the deep-dive conversation
MaxResponses == 16

\* conductDeepDiveConversation's conversationFlow: five phases of three
\* questions (the question texts are shortened).
conversationFlow ==
  <<[phase |-> "goals", questions |-> <<"goals 1", "goals 2", "goals 3">>],
    [phase |-> "interests", questions |-> <<"interests 1", "interests 2", "interests 3">>],
    [phase |-> "current_knowledge",
     questions |-> <<"knowledge 1", "knowledge 2", "knowledge 3">>],
    [phase |-> "learning_style", questions |-> <<"style 1", "style 2", "style 3">>],
    [phase |-> "context", questions |-> <<"context 1", "context 2", "context 3">>]>>

\* The profile object and the state conductDeepDiveConversation returns.
newProfile(now) ==
  [goals |-> <<>>, interests |-> <<>>, current_knowledge |-> <<>>,
   learning_style |-> "", time_commitment |-> "", background |-> "",
   content_preferences |-> <<>>, created_at |-> Date(now)]
conductDeepDiveConversation ==
  [currentPhase |-> 0, currentQuestion |-> 0, isComplete |-> FALSE]

\* What the model's answer to one response may be: the call fails, the
\* content is not JSON, or an object with some of the schema's arrays.
ProfilerOutcomes ==
  {[kind |-> "error", value |-> <<>>],
   [kind |-> "json", value |-> [extracted_goals |-> <<"g">>]],
   [kind |-> "json", value |->
      [learning_style_indicators |-> <<"visual", "hands-on">>,
       background_info |-> <<"engineer">>]]}

\* array.join(sep)
RECURSIVE join(_, _)
join(list, sep) ==
  IF list = <<>> THEN ""
  ELSE IF Len(list) = 1 THEN list[1]
  ELSE list[1] \o sep \o join(Tail(list), sep)

\* if (analysis.key) profile.field.push(...analysis.key)
pushAll(profile, field, analysis, key) ==
  IF key \in DOMAIN analysis THEN [profile EXCEPT ![field] = @ \o analysis[key]]
  ELSE profile
\* if (analysis.key) profile.field = analysis.key.join(', ')
setJoined(profile, field, analysis, key) ==
  IF key \in DOMAIN analysis THEN [profile EXCEPT ![field] = join(analysis[key], ", ")]
  ELSE profile

\* The try block of processPhaseResponse, given the analysis.
mergeAnalysis(profile, analysis) ==
  LET p1 == pushAll(profile, "goals", analysis, "extracted_goals")
      p2 == pushAll(p1, "interests", analysis, "extracted_interests")
      p3 == pushAll(p2, "current_knowledge", analysis, "extracted_knowledge")
      p4 == setJoined(p3, "learning_style", analysis, "learning_style_indicators")
      p5 == setJoined(p4, "time_commitment", analysis, "time_commitment_indicators")
      p6 == setJoined(p5, "background", analysis, "background_info")
  IN  pushAll(p6, "content_preferences", analysis, "content_preferences")

\* processPhaseResponse: the profile as it leaves it. The catch logs a
\* failed call and returns normally.
processPhaseResponseRethrow(phase, llm, profile) ==
  LET r == generateStructuredResponse(llm)
  IN  IF r.threw THEN Thrown ELSE Returned(mergeAnalysis(profile, r.value))
processPhaseResponse(phase, llm, profile) ==
  LET r == generateStructuredResponse(llm)
  IN  IF r.threw THEN Returned(profile) ELSE Returned(mergeAnalysis(profile, r.value))

\* processUserResponse: the new state and the profile object's contents.
processUserResponse(conversationState, profile, llm) ==
  LET currentPhase == conversationState.currentPhase
      currentQuestion == conversationState.currentQuestion
  IN  IF currentPhase >= Len(conversationFlow)
      THEN Returned([state |-> [conversationState EXCEPT !.isComplete = TRUE],
                     profile |-> profile])
      ELSE LET phase == conversationFlow[currentPhase + 1]
               r == processPhaseResponse(phase.phase, llm, profile)
               wraps == currentQuestion + 1 >= Len(phase.questions)
               nextPhase == IF wraps THEN currentPhase + 1 ELSE currentPhase
               nextQuestion == IF wraps THEN 0 ELSE currentQuestion + 1
           IN  IF r.threw THEN Thrown
               ELSE Returned(
                      [state |-> [currentPhase |-> nextPhase,
                                  currentQuestion |-> nextQuestion,
                                  isComplete |-> nextPhase >= Len(conversationFlow)],
                       profile |-> r.value])

\* phase.replace('_', ' ').toUpperCase()
phaseTitle(phase) ==
  CASE phase = "current_knowledge" -> "CURRENT KNOWLEDGE"
    [] phase = "learning_style" -> "LEARNING STYLE"
    [] phase = "goals" -> "GOALS"
    [] phase = "interests" -> "INTERESTS"
    [] OTHER -> "CONTEXT"

\* getCurrentQuestion: null once currentPhase has passed the last phase.
getCurrentQuestion(conversationState) ==
  LET currentPhase == conversationState.currentPhase
      currentQuestion == conversationState.currentQuestion
  IN  IF currentPhase >= Len(conversationFlow) THEN [isNull |-> TRUE]
      ELSE LET phase == conversationFlow[currentPhase + 1]
           IN  [isNull |-> FALSE,
                phase |-> phase.phase,
                question |-> phase.questions[currentQuestion + 1],
                phaseTitle |-> phaseTitle(phase.phase),
                progress |-> [currentPhase |-> currentPhase + 1,
                              totalPhases |-> Len(conversationFlow),
                              currentQuestion |-> currentQuestion + 1,
                              totalQuestions |-> Len(phase.questions)]]

\* The position a state is at.
positionOf(conversationState) ==
  [phase |-> conversationState.currentPhase,
   question |-> conversationState.currentQuestion]

ProfFrame ==
  UNCHANGED <<storeVars, logVars, calcVars, clusterVars, planVars, urlVars, rsVars,
              rfVars, lpVars>>

\* The state conductDeepDiveConversation returned, held by its caller.
ProfilerInit ==
  /\ convState = <<conductDeepDiveConversation>> /\ profileObj = newProfile(1)
  /\ hPc = [h \in Tasks |-> "idle"] /\ hArg = [h \in Tasks |-> <<>>]
  /\ answered = <<>> /\ completions = 0 /\ overlaps = 0 /\ question = <<>>

\* state = await processUserResponse(state, response), one call at a time.
ProcessUserResponse ==
  /\ convState # <<>>
  /\ Len(answered) < MaxResponses
  /\ \E llm \in ProfilerOutcomes :
       LET r == processUserResponse(convState[1], profileObj, llm)
       IN  IF r.threw THEN UNCHANGED <<convState, profileObj>>
           ELSE convState' = <<r.value.state>> /\ profileObj' = r.value.profile
  /\ answered' = Append(answered, positionOf(convState[1]))
  /\ UNCHANGED <<hPc, hArg, completions, overlaps, question>>
  /\ ProfFrame

GetCurrentQuestion ==
  /\ convState # <<>>
  /\ question' = getCurrentQuestion(convState[1])
  /\ UNCHANGED <<convState, profileObj, hPc, hArg, answered, completions, overlaps>>
  /\ ProfFrame

ProfilerNext == ProcessUserResponse \/ GetCurrentQuestion
InitProfiler ==
  /\ ProfilerInit /\ StoreIdle /\ LogIdle /\ CalcIdle /\ ClusterIdle /\ PlanIdle
  /\ UrlIdle /\ RsIdle /\ RfIdle /\ LpIdle
SpecProfiler == InitProfiler /\ [][ProfilerNext]_vars

\* ------------------------------------------ profiling over one socket
MaxMessages == 17
MaxOverlaps == 2

\* What the LLM call of processPhaseResponse settles to on the socket.
SocketOutcomes == {o \in ProfilerOutcomes : "extracted_goals" \notin DOMAIN o.value}

\* What analyzeUserProfile's LLM call may settle to (answers that list
\* initial_concepts are left out).
AnalysisOutcomes ==
  {[kind |-> "error", value |-> <<>>],
   [kind |-> "json", value |->
      [consolidated_goals |-> <<"goal">>, learning_style_assessment |-> "visual",
       recommended_approach |-> "practice"]]}

\* a || b for an array or string taken from the analysis.
orElse(analysis, key, fallback) ==
  IF key \in DOMAIN analysis /\ analysis[key] # "" THEN analysis[key] ELSE fallback

\* analyzeUserProfile: the analysed profile, or the profile itself when the
\* call fails.
analyzeUserProfile(profile, llm, now) ==
  LET r == generateStructuredResponse(llm)
  IN  IF r.threw THEN profile
      ELSE [goals |-> orElse(r.value, "consolidated_goals", profile.goals),
            interests |-> orElse(r.value, "consolidated_interests", profile.interests),
            current_knowledge |->
              orElse(r.value, "consolidated_knowledge", profile.current_knowledge),
            learning_style |->
              orElse(r.value, "learning_style_assessment", profile.learning_style),
            time_commitment |-> profile.time_commitment,
            background |-> profile.background,
            content_preferences |-> profile.content_preferences,
            recommended_approach |-> r.value.recommended_approach,
            insights |-> orElse(r.value, "insights", <<>>),
            created_at |-> profile.created_at,
            analyzed_at |-> Date(now)]

\* socket.on('start-profiling'): the conversation starts and the first
\* question is sent.
StartProfiling ==
  /\ convState = <<>> /\ DOMAIN profileObj = {}
  /\ convState' = <<conductDeepDiveConversation>>
  /\ profileObj' = newProfile(clock)
  /\ question' = getCurrentQuestion(conductDeepDiveConversation)
  /\ UNCHANGED <<hPc, hArg, answered, completions, overlaps>>
  /\ ProfFrame

\* socket.on('message') with type 'user' while a profiling conversation is
\* incomplete: processProfilingResponse calls processUserResponse with the
\* socket's state, which runs up to its LLM call.
Message(h) ==
  /\ FreeSlot(h, hPc)
  /\ convState # <<>>
  /\ ~convState[1].isComplete
  /\ Len(answered) < MaxMessages
  /\ IF \E other \in Tasks : hPc[other] # "idle"
     THEN overlaps < MaxOverlaps /\ overlaps' = overlaps + 1
     ELSE UNCHANGED overlaps
  /\ hPc' = [hPc EXCEPT ![h] = "llm"]
  /\ hArg' = [hArg EXCEPT ![h] = convState[1]]
  /\ answered' = Append(answered, positionOf(convState[1]))
  /\ UNCHANGED <<convState, profileObj, completions, question>>
  /\ ProfFrame

\* The LLM call settles: processUserResponse returns the state after the
\* one it was given, the socket's state is overwritten with it, and either
\* completeProfiling is called or the next question is sent.
ResponseProcessed(h) ==
  /\ hPc[h] = "llm"
  /\ \E llm \in SocketOutcomes :
       LET r == processUserResponse(hArg[h], profileObj, llm)
       IN  /\ convState' = <<r.value.state>>
           /\ profileObj' = r.value.profile
           /\ IF r.value.state.isComplete
              THEN /\ completions' = completions + 1
                   /\ hPc' = [hPc EXCEPT ![h] = "completing"]
                   /\ UNCHANGED question
              ELSE /\ question' = getCurrentQuestion(r.value.state)
                   /\ hPc' = [hPc EXCEPT ![h] = "idle"]
                   /\ UNCHANGED completions
  /\ UNCHANGED <<hArg, answered, overlaps>>
  /\ ProfFrame

\* completeProfiling settles: the analysed profile is saved with
\* updateUserProfile (written here in one step), the activity is logged and
\* the socket's state is cleared; when the store cannot be read the call
\* rejects and processProfilingResponse's catch leaves the state as it is.
ProfilingCompleted(h) ==
  /\ hPc[h] = "completing"
  /\ hPc' = [hPc EXCEPT ![h] = "idle"]
  /\ clock' = clock + 1
  /\ \E llm \in AnalysisOutcomes :
       LET analyzedProfile == analyzeUserProfile(profileObj, llm, clock)
           r == loadKnowledgeGraph(kgExists, kgText)
       IN  IF r.ok
           THEN /\ kgText' = JSONstringify(
                               Stamp(updateUserProfileGraph(r.graph, analyzedProfile, clock),
                                     clock))
                /\ RsAddActivity([type |-> "user_profiling", status |-> "completed"])
                /\ convState' = <<>>
           ELSE UNCHANGED <<kgText, logText, added, convState>>
  /\ UNCHANGED <<kgExists, pc, op, arg, graph, outcome, done, started>>
  /\ UNCHANGED <<logExists, cacheExists, cacheText>>
  /\ UNCHANGED <<profileObj, hArg, answered, completions, overlaps, question>>
  /\ UNCHANGED <<calcVars, clusterVars, planVars, urlVars, rsVars, rfVars, lpVars>>

SocketNext ==
  \/ StartProfiling
  \/ \E h \in Tasks : Message(h) \/ ResponseProcessed(h) \/ ProfilingCompleted(h)
InitSocket ==
  /\ StoreInit /\ LogIdle /\ CalcIdle /\ ClusterIdle /\ PlanIdle
  /\ UrlIdle /\ RsIdle /\ ProfIdle /\ RfIdle /\ LpIdle
SpecSocket == InitSocket /\ [][SocketNext]_vars

\* ------------------------------------- interactive reflection sessions
MaxCalls == 6
MaxSessions == 2

\* getDefaultReflectionPrompts
defaultReflectionPrompts ==
  <<[category |-> "knowledge_connection", question |-> "connect",
     context |-> "connections", expected_insight_type |-> "connection"],
    [category |-> "goal_progress", question |-> "advance",
     context |-> "progress", expected_insight_type |-> "progress"],
    [category |-> "pattern_recognition", question |-> "patterns",
     context |-> "patterns", expected_insight_type |-> "pattern"],
    [category |-> "application", question |-> "apply",
     context |-> "practice", expected_insight_type |-> "application"]>>

\* What the prompt generation may settle to: the call fails, or a list of
\* zero or two prompts.
PromptOutcomes ==
  LET p(q) == [category |-> "c", question |-> q, context |-> "x",
               expected_insight_type |-> "t"]
  IN  {[kind |-> "error", value |-> <<>>],
       [kind |-> "json", value |-> [prompts |-> <<>>]],
       [kind |-> "json", value |-> [prompts |-> <<p("one"), p("two")>>]]}

\* What analyzeReflectionInsights' call may settle to.
InsightOutcomes ==
  {[kind |-> "error", value |-> <<>>],
   [kind |-> "json", value |->
      [connections |-> <<[concept1 |-> "A", concept2 |-> "B", relationship |-> "r"]>>,
       goals_progress |-> <<>>, next_steps |-> <<>>]]}

\* generateReflectionPrompts: response.prompts, or the defaults on a failure.
generateReflectionPrompts(llm) ==
  LET r == generateStructuredResponse(llm)
  IN  IF r.threw THEN defaultReflectionPrompts ELSE r.value.prompts

\* initiateReflectionSession's reflectionSession, the prompts filled in.
newReflectionSession(now, prompts) ==
  [id |-> now, start_time |-> Date(now), status |-> "active",
   current_question_index |-> 0, questions |-> prompts, insights |-> <<>>,
   connections_made |-> <<>>, goals_progress |-> <<>>, next_steps |-> <<>>]

\* graph.reflection_sessions?.find(s => s.id === sessionId): its index, 0
\* for undefined.
findSession(g, sessionId) ==
  IF "reflection_sessions" \notin DOMAIN g THEN 0
  ELSE LET hits == {i \in 1..Len(g.reflection_sessions) :
                      g.reflection_sessions[i].id = sessionId}
       IN  IF hits = {} THEN 0 ELSE CHOOSE i \in hits : \A j \in hits : i <= j

\* ReflectionEngine.getCurrentQuestion on the loaded graph.
currentReflectionQuestion(g, sessionId) ==
  LET i == findSession(g, sessionId)
  IN  IF i = 0 \/ g.reflection_sessions[i].status # "active"
      THEN [sessionId |-> sessionId, isNull |-> TRUE]
      ELSE LET session == g.reflection_sessions[i]
               currentIndex == session.current_question_index
           IN  IF currentIndex >= Len(session.questions)
               THEN [sessionId |-> sessionId, isNull |-> TRUE]
               ELSE [sessionId |-> sessionId, isNull |-> FALSE,
                     question |-> session.questions[currentIndex + 1].question,
                     questionIndex |-> currentIndex,
                     totalQuestions |-> Len(session.questions)]

\* analyzeReflectionInsights: the analysis, or three empty lists on a failure.
analyzeReflectionInsights(llm) ==
  LET r == generateStructuredResponse(llm)
  IN  IF r.threw THEN [connections |-> <<>>, goals_progress |-> <<>>, next_steps |-> <<>>]
      ELSE r.value

\* completeReflectionSession: the graph it saves.
completeReflectionSession(g, session, llm, now) ==
  LET analysis == analyzeReflectionInsights(llm)
  IN  saveReflectionSessionGraph(g,
        Overlay(session,
          [connections_made |-> analysis.connections,
           goals_progress |-> analysis.goals_progress,
           next_steps |-> analysis.next_steps,
           status |-> "completed", end_time |-> now]),
        now)

\* processReflectionResponse on the loaded graph: it throws, or saves.
processReflectionResponse(g, sessionId, llm, now) ==
  LET i == findSession(g, sessionId)
  IN  IF i = 0 \/ g.reflection_sessions[i].status # "active"
      THEN [threw |-> TRUE, message |-> "Reflection session not found or not active",
            graph |-> g]
      ELSE LET session == g.reflection_sessions[i]
               currentIndex == session.current_question_index
           IN  IF currentIndex >= Len(session.questions)
               THEN [threw |-> TRUE, message |-> "No current question found", graph |-> g]
               ELSE LET currentQuestion == session.questions[currentIndex + 1]
                        insight == [prompt |-> currentQuestion.question,
                                    category |-> currentQuestion.category,
                                    user_response |-> "answer",
                                    timestamp |-> Date(now),
                                    insight_type |-> currentQuestion.expected_insight_type]
                        answered1 == [session EXCEPT
                                        !.insights = Append(@, insight),
                                        !.current_question_index = currentIndex + 1]
                    IN  [threw |-> FALSE, message |-> "",
                         graph |->
                           IF currentIndex + 1 >= Len(session.questions)
                           THEN completeReflectionSession(g, answered1, llm, now)
                           ELSE saveReflectionSessionGraph(g, answered1, now)]

\* The ids of the stored sessions, and 0 for an id no session has.
KnownIds ==
  {0} \cup (IF kgExists /\ "reflection_sessions" \in DOMAIN kgText
            THEN {kgText.reflection_sessions[i].id :
                    i \in 1..Len(kgText.reflection_sessions)}
            ELSE {})

RfFrame ==
  UNCHANGED <<kgExists, pc, op, arg, graph, outcome, done, started,
              logExists, cacheExists, cacheText, calcVars, clusterVars, planVars,
              urlVars, rsVars, profVars, lpVars>>

\* initiateReflectionSession: a failed load rejects the call; otherwise the
\* new session is saved and returned.
InitiateReflectionSession ==
  /\ rfCalls < MaxCalls
  /\ Cardinality(KnownIds) <= MaxSessions
  /\ rfCalls' = rfCalls + 1
  /\ clock' = clock + 1
  /\ \E llm \in PromptOutcomes :
       LET r == loadKnowledgeGraph(kgExists, kgText)
           session == newReflectionSession(clock, generateReflectionPrompts(llm))
       IN  IF r.ok
           THEN /\ kgText' = JSONstringify(
                               Stamp(saveReflectionSessionGraph(r.graph, session, clock),
                                     clock))
                /\ RsAddActivity([type |-> "reflection", status |-> "in_progress"])
                /\ rfOut' = [op |-> "initiate", sessionId |-> session.id, threw |-> FALSE,
                             message |-> ""]
           ELSE /\ RsAddActivity([type |-> "reflection", status |-> "in_progress"])
                /\ rfOut' = [op |-> "initiate", sessionId |-> session.id, threw |-> TRUE,
                             message |-> "load"]
                /\ UNCHANGED kgText
  /\ UNCHANGED rfQuestion
  /\ RfFrame

\* getCurrentQuestion(sessionId); a failed load rejects the call.
GetReflectionQuestion ==
  /\ kgExists
  /\ \E sessionId \in KnownIds :
       rfQuestion' = currentReflectionQuestion(
                       loadKnowledgeGraph(kgExists, kgText).graph, sessionId)
  /\ UNCHANGED <<clock, kgText, logText, added, rfCalls, rfOut>>
  /\ RfFrame

\* processReflectionResponse(sessionId, userResponse), run to its end.
ProcessReflectionResponse ==
  /\ rfCalls < MaxCalls
  /\ rfCalls' = rfCalls + 1
  /\ clock' = clock + 1
  /\ \E sessionId \in KnownIds, llm \in InsightOutcomes :
       LET l == loadKnowledgeGraph(kgExists, kgText)
       IN  IF ~l.ok
           THEN /\ rfOut' = [op |-> "process", sessionId |-> sessionId, threw |-> TRUE,
                             message |-> "load"]
                /\ UNCHANGED <<kgText, logText, added>>
           ELSE LET r == processReflectionResponse(l.graph, sessionId, llm, clock)
                    i == findSession(r.graph, sessionId)
                IN  /\ rfOut' = [op |-> "process", sessionId |-> sessionId,
                                 threw |-> r.threw, message |-> r.message]
                    /\ IF r.threw THEN UNCHANGED <<kgText, logText, added>>
                       ELSE /\ kgText' = JSONstringify(Stamp(r.graph, clock))
                            /\ IF r.graph.reflection_sessions[i].status = "completed"
                               THEN RsAddActivity([type |-> "reflection",
                                                   status |-> "completed"])
                               ELSE UNCHANGED <<logText, added>>
  /\ UNCHANGED rfQuestion
  /\ RfFrame

ReflectNext ==
  InitiateReflectionSession \/ GetReflectionQuestion \/ ProcessReflectionResponse
InitReflect ==
  /\ StoreInit /\ LogIdle /\ CalcIdle /\ ClusterIdle /\ PlanIdle
  /\ UrlIdle /\ RsIdle /\ ProfIdle /\ LpIdle /\ RfIdle
SpecReflect == InitReflect /\ [][ReflectNext]_vars

\* ------------------------------------------------- the learning pipeline
MaxStarts == 3
MaxSockets == 2

\* The keys startPeriodicTasks stores its timers under.
IntervalNames == {"dailyAnalysis", "weeklyReflection", "connectionDiscovery", "healthCheck"}

\* The ids setInterval hands out next: ids not yet given to any timer.
freshIds(count) ==
  [n \in IntervalNames |->
     CASE n = "dailyAnalysis" -> 4 * count + 1
       [] n = "weeklyReflection" -> 4 * count + 2
       [] n = "connectionDiscovery" -> 4 * count + 3
       [] OTHER -> 4 * count + 4]

\* Object.values(this.intervals)
objectValues(o) == {o[k] : k \in DOMAIN o}

LpFrame ==
  UNCHANGED <<storeVars, logVars, calcVars, clusterVars, planVars, urlVars, rsVars,
              profVars, rfVars>>

\* start(): nothing when running; else isRunning = true, four setInterval
\* calls, one io.on('connection', ...).
Start ==
  /\ listeners < MaxStarts
  /\ IF isRunning
     THEN UNCHANGED <<isRunning, intervals, timers, listeners>>
     ELSE /\ isRunning' = TRUE
          /\ intervals' = freshIds(listeners)
          /\ timers' = timers \cup objectValues(freshIds(listeners))
          /\ listeners' = listeners + 1
  /\ UNCHANGED <<sockets, handled>>
  /\ LpFrame

\* stop(): nothing when not running; else every interval is cleared.
Stop ==
  /\ IF ~isRunning
     THEN UNCHANGED <<isRunning, intervals, timers>>
     ELSE /\ timers' = timers \ objectValues(intervals)
          /\ intervals' = <<>>
          /\ isRunning' = FALSE
  /\ UNCHANGED <<listeners, sockets, handled>>
  /\ LpFrame

\* A client connects: every 'connection' listener of the pipeline runs and
\* registers its two handlers on the socket.
Connection ==
  /\ Len(sockets) < MaxSockets
  /\ sockets' = Append(sockets,
                  [contentProcessed |-> listeners, reinforcementCompleted |-> listeners])
  /\ UNCHANGED <<isRunning, intervals, timers, listeners, handled>>
  /\ LpFrame

\* A socket emits 'content-processed': each handler registered for it runs.
ContentProcessed ==
  /\ sockets # <<>>
  /\ \E i \in 1..Len(sockets) :
       handled' = [socket |-> i, event |-> "content-processed",
                   times |-> sockets[i].contentProcessed]
  /\ UNCHANGED <<isRunning, intervals, timers, listeners, sockets>>
  /\ LpFrame

\* A socket emits 'reinforcement-completed'.
ReinforcementCompleted ==
  /\ sockets # <<>>
  /\ \E i \in 1..Len(sockets) :
       handled' = [socket |-> i, event |-> "reinforcement-completed",
                   times |-> sockets[i].reinforcementCompleted]
  /\ UNCHANGED <<isRunning, intervals, timers, listeners, sockets>>
  /\ LpFrame

PipelineNext == Start \/ Stop \/ Connection \/ ContentProcessed \/ ReinforcementCompleted
InitPipeline ==
  /\ StoreIdle /\ LogIdle /\ CalcIdle /\ ClusterIdle /\ PlanIdle
  /\ UrlIdle /\ RsIdle /\ ProfIdle /\ RfIdle /\ LpIdle
SpecPipeline == InitPipeline /\ [][PipelineNext]_vars

\* ------------------------------------------- answering a review question
\* A store whose concepts were extracted earlier: A may already be linked
\* to B.
answeredStore(links) ==
  [initialGraph(0) EXCEPT !.concepts =
     <<[name |-> "A", confidence |-> Num(Tenths(5)), connections |-> links,
        last_reinforced |-> Null, reinforcement_schedule |-> Date(3 * DaySeconds),
        created_at |-> 0, last_updated |-> 0],
       [name |-> "B", confidence |-> Num(Tenths(8)), connections |-> <<>>,
        last_reinforced |-> Null, reinforcement_schedule |-> Date(14 * DaySeconds),
        created_at |-> 0, last_updated |-> 0]>>]

\* What analyzeUserResponse can come to for an answer.
AnswerOutcomes ==
  {o \in LLMOutcomes :
     o.kind = "error" \/ (o.kind = "json" /\ DOMAIN o.value \in
        {{"note"}, {"accuracy_score", "completeness_score"}})}

\* The object processUserAnswer hands to addConcept:
\* { ...concept, confidence, last_reinforced, reinforcement_schedule }.
\* The variant hands over the three new fields and the name only.
answeredConceptFieldsOnly(concept, newConfidence, now) ==
  [name |-> concept.name, confidence |-> newConfidence, last_reinforced |-> Date(now),
   reinforcement_schedule |-> calculateNextReinforcement(newConfidence, now)]
answeredConcept(concept, newConfidence, now) ==
  Overlay(concept,
    [confidence |-> newConfidence, last_reinforced |-> Date(now),
     reinforcement_schedule |-> calculateNextReinforcement(newConfidence, now)])

AnswerFrame == UNCHANGED <<logExists, cacheExists, cacheText, calcVars, clusterVars, planVars, extVars>>

\* The processUserAnswer calls made so far.
MaxAnswers == 1
answersBegun ==
  Cardinality({i \in 1..Len(done) : done[i].op = "processUserAnswer"})
    + Cardinality({t \in Tasks : op[t] = "processUserAnswer" /\ pc[t] # "idle"})

\* processUserAnswer settles.
Settle(t, a, ok) ==
  /\ pc' = [pc EXCEPT ![t] = "idle"]
  /\ outcome' = [outcome EXCEPT ![t] = IF ok THEN "ok" ELSE "error"]
  /\ done' = Append(done, [op |-> "processUserAnswer", arg |-> a, ok |-> ok])

\* processUserAnswer up to its await of analyzeUserResponse: the graph is
\* loaded and the concept of the question looked up; a question about a
\* name that is not stored throws.
LoadConcept(t) ==
  /\ FreeSlot(t, pc)
  /\ started < MaxOps /\ answersBegun < MaxAnswers
  /\ started' = started + 1
  /\ clock' = clock + 1
  /\ op' = [op EXCEPT ![t] = "processUserAnswer"]
  /\ \E n \in Names \cup {"Z"} :
       LET r == loadKnowledgeGraph(kgExists, kgText)
           i == IF r.ok THEN findIndex(r.graph.concepts, n) ELSE 0
       IN  IF i >= 1
           THEN /\ arg' = [arg EXCEPT ![t] = r.graph.concepts[i]]
                /\ pc' = [pc EXCEPT ![t] = "analysing"]
                /\ outcome' = [outcome EXCEPT ![t] = "running"]
                /\ UNCHANGED done
           ELSE /\ arg' = [arg EXCEPT ![t] = [name |-> n]]
                /\ Settle(t, [name |-> n], FALSE)
  /\ UNCHANGED <<kgExists, kgText, graph, logText, added>>
  /\ AnswerFrame

\* The LLM's analysis arrives: the new confidence is computed from the
\* concept loaded before the await and addConcept is called with the
\* updated copy of that concept.
AnalyzeUserResponse(t) ==
  /\ pc[t] = "analysing"
  /\ \E llm \in AnswerOutcomes :
       LET r == processUserAnswer(arg[t], TRUE, llm)
       IN  IF r.threw
           THEN /\ UNCHANGED arg
                /\ Settle(t, arg[t], FALSE)
           ELSE /\ arg' = [arg EXCEPT ![t] =
                             answeredConcept(arg[t], r.value.newConfidence, clock)]
                /\ pc' = [pc EXCEPT ![t] = "adding"]
                /\ UNCHANGED <<outcome, done>>
  /\ UNCHANGED <<clock, kgExists, kgText, op, graph, started, logText, added>>
  /\ AnswerFrame

\* addConcept as processUserAnswer calls it, up to fs.writeFile.
AnswerAddConcept(t) ==
  /\ pc[t] = "adding"
  /\ LET r == loadKnowledgeGraph(kgExists, kgText)
     IN  IF r.ok
         THEN /\ graph' = [graph EXCEPT ![t] =
                             Stamp(addConceptGraph(r.graph, arg[t], clock), clock)]
              /\ pc' = [pc EXCEPT ![t] = "writing"]
              /\ UNCHANGED <<outcome, done>>
         ELSE /\ Settle(t, arg[t], FALSE)
              /\ UNCHANGED graph
  /\ UNCHANGED <<clock, kgExists, kgText, op, arg, started, logText, added>>
  /\ AnswerFrame

\* Its fs.writeFile completes; processUserAnswer goes on to addActivity.
AnswerSaved(t) ==
  /\ pc[t] = "writing" /\ op[t] = "processUserAnswer"
  /\ kgExists' = TRUE
  /\ kgText' = JSONstringify(graph[t])
  /\ pc' = [pc EXCEPT ![t] = "logging"]
  /\ graph' = [graph EXCEPT ![t] = NoText]
  /\ UNCHANGED <<clock, op, arg, outcome, done, started, logText, added>>
  /\ AnswerFrame

\* addActivity, then processUserAnswer returns.
AnswerAddActivity(t) ==
  /\ pc[t] = "logging"
  /\ RsAddActivity([type |-> "reinforcement", status |-> "completed",
                    concept |-> arg[t].name, new_confidence |-> arg[t].confidence])
  /\ Settle(t, arg[t], TRUE)
  /\ UNCHANGED <<clock, kgExists, kgText, op, arg, graph, started>>
  /\ AnswerFrame

\* The write of another operation on the store completes.
OtherWriteDone(t) == op[t] # "processUserAnswer" /\ WriteDone(t)

AnswerNext ==
  \E t \in Tasks :
    \/ LoadConcept(t) \/ AnalyzeUserResponse(t) \/ AnswerAddConcept(t)
    \/ AnswerSaved(t) \/ AnswerAddActivity(t)
    \/ ApplyNewConnections(t) \/ OtherWriteDone(t)

InitAnswer ==
  /\ clock = 1
  /\ kgExists = TRUE
  /\ \E links \in {<<>>, <<"B">>} : kgText = JSONstringify(answeredStore(links))
  /\ pc = [t \in Tasks |-> "idle"] /\ op = [t \in Tasks |-> "none"]
  /\ arg = [t \in Tasks |-> Null] /\ graph = [t \in Tasks |-> NoText]
  /\ outcome = [t \in Tasks |-> "none"] /\ done = <<>> /\ started = 0
  /\ LogIdle /\ CalcIdle /\ ClusterIdle /\ PlanIdle /\ ExtIdle
SpecAnswer == InitAnswer /\ [][AnswerNext]_vars

\* ------------------------------ learning, one awaited call after another
MaxLearn == 3

\* content.url || 'text_input'
textInput == <<"string", 0>>
sourceOf(content) == IF falsy(Get(content, "url")) THEN textInput ELSE content.url

\* What extractConcepts can come to: the call fails, or it names concept A
\* (with or without a connections list of its own), B, or both.
ExtractionOutcomes ==
  {[kind |-> "error", value |-> <<>>]} \cup
  {[kind |-> "json",
    value |-> [concepts |-> c, insights |-> <<"i">>, key_takeaways |-> <<>>]] :
     c \in {<<[name |-> "A", description |-> "a", confidence |-> Num(Tenths(5))]>>,
            <<[name |-> "A", description |-> "a", confidence |-> Num(Tenths(5)),
               connections |-> <<"Z">>]>>,
            <<[name |-> "B", description |-> "b", confidence |-> Num(Tenths(9))],
              [name |-> "A", description |-> "a", confidence |-> Num(Tenths(7))]>>}}

\* extractKnowledge: every extracted concept gets sources, last_reinforced:
\* null, a review date and created_from.  The variant leaves last_reinforced
\* and connections out of what is handed on.
extractKnowledge(content, llm, now) ==
  LET extraction == generateStructuredResponse(llm)
  IN  IF extraction.threw \/ "concepts" \notin DOMAIN extraction.value THEN Thrown
      ELSE Returned(
             [concepts |->
                [i \in 1..Len(extraction.value.concepts) |->
                   Overlay(extraction.value.concepts[i],
                     [sources |-> <<sourceOf(content)>>,
                      last_reinforced |-> Null,
                      reinforcement_schedule |->
                        calculateReinforcementSchedule(
                          Get(extraction.value.concepts[i], "confidence"), now),
                      created_from |-> content.type])],
              insights |-> Get(extraction.value, "insights"),
              key_takeaways |-> Get(extraction.value, "key_takeaways")])

names(concepts) == [i \in 1..Len(concepts) |-> concepts[i].name]

\* processContent after extractKnowledge: addContentItem, then addConcept
\* for each extracted concept, each a load, change and save of its own.
processContentGraph(g, content, extraction, now) ==
  LET item == Overlay(content,
                [key_concepts |-> names(extraction.concepts),
                 insights |-> extraction.insights,
                 key_takeaways |-> extraction.key_takeaways,
                 processed_date |-> now])
      withItem == JSONparse(JSONstringify(Stamp(addContentItemGraph(g, item, now), now)))
  IN  addConceptEach(withItem, extraction.concepts, now)

\* discoverHiddenConnections' filter: the from concept is stored and does
\* not list the to concept yet.
newConnectionsOf(concepts, hiddenConnections) ==
  SelectSeq(hiddenConnections,
    LAMBDA conn :
      LET i == findIndex(concepts, conn.from_concept)
      IN  i >= 1 /\ \A k \in 1..Len(connectionsOf(concepts[i])) :
                      connectionsOf(concepts[i])[k] # conn.to_concept)

\* The concepts the last completed processContent call returned.
lastExtracted ==
  LET hits == {i \in 1..Len(done) : done[i].op = "processContent" /\ done[i].ok}
  IN  IF hits = {} THEN <<>>
      ELSE done[CHOOSE i \in hits : \A j \in hits : j <= i].arg

\* The connections the LLM may propose for the new concepts: the ones found
\* for a single new concept start at it.
ProposedFor(newConcepts) ==
  {c \in ProposedInputs :
     \/ Len(newConcepts) >= 2
     \/ \A k \in 1..Len(c) : c[k].from_concept = newConcepts[1].name}

RECURSIVE addActivities(_, _, _)
addActivities(log, activities, now) ==
  IF activities = <<>> THEN log
  ELSE addActivities(
         [addActivityLog(log, Head(activities), now) EXCEPT !.last_updated = now],
         Tail(activities), now)

\* One awaited call: what it leaves in the graph file and in the activity
\* log, and how it settled.
Learn(o, a, ok, g, activities) ==
  /\ started < MaxLearn
  /\ started' = started + 1
  /\ clock' = clock + 1
  /\ kgText' = g
  /\ logText' = addActivities(logText, activities, clock)
  /\ added' = added \o [i \in 1..Len(activities) |->
                          Overlay([timestamp |-> clock], activities[i])]
  /\ done' = Append(done, [op |-> o, arg |-> a, ok |-> ok])
  /\ UNCHANGED <<kgExists, pc, op, arg, graph, outcome>>
  /\ AnswerFrame

activityOf(type, status) == [type |-> type, status |-> status]
saved(g, now) == JSONstringify(Stamp(g, now))

LearnProcessContent ==
  /\ started < MaxLearn
  /\ \E content \in ContentInputs, llm \in ExtractionOutcomes :
       LET g == loadKnowledgeGraph(kgExists, kgText).graph
           extraction == extractKnowledge(content, llm, clock)
       IN  IF extraction.threw
           THEN Learn("processContent", <<>>, FALSE, kgText,
                      <<activityOf("content_processing", "in_progress")>>)
           ELSE Learn("processContent", extraction.value.concepts, TRUE,
                      saved(processContentGraph(g, content, extraction.value, clock), clock),
                      <<activityOf("content_processing", "in_progress"),
                        activityOf("content_processing", "completed")>>)

\* mapNewConnections, given what processContent returned.
LearnMapNewConnections ==
  /\ started < MaxLearn
  /\ lastExtracted # <<>>
  /\ \E failed \in BOOLEAN, connections \in ProposedFor(lastExtracted) :
       LET g == loadKnowledgeGraph(kgExists, kgText).graph
       IN  IF failed
           THEN Learn("mapNewConnections", connections, FALSE, kgText,
                      <<activityOf("connection_mapping", "in_progress")>>)
           ELSE Learn("mapNewConnections", connections, TRUE,
                      saved(applyConnectionsGraph(g, lastExtracted, connections, clock), clock),
                      <<activityOf("connection_mapping", "in_progress"),
                        activityOf("connection_mapping", "completed")>>)

\* discoverHiddenConnections: a failed LLM call counts as no connection.
LearnDiscoverHiddenConnections ==
  /\ started < MaxLearn
  /\ \E hiddenConnections \in ConnectionInputs \cup {<<>>} :
       LET g == loadKnowledgeGraph(kgExists, kgText).graph
           newConnections == newConnectionsOf(g.concepts, hiddenConnections)
       IN  Learn("discoverHiddenConnections", newConnections, TRUE,
                 IF newConnections # <<>>
                 THEN saved(applyNewConnectionsGraph(g, newConnections), clock)
                 ELSE kgText,
                 <<activityOf("connection_mapping", "in_progress"),
                   activityOf("connection_mapping", "completed")>>)

\* processUserAnswer, nothing else running.
LearnProcessUserAnswer ==
  /\ started < MaxLearn
  /\ \E n \in Names \cup {"Z"}, llm \in AnswerOutcomes :
       LET g == loadKnowledgeGraph(kgExists, kgText).graph
           i == findIndex(g.concepts, n)
           r == processUserAnswer(g.concepts[i], i >= 1, llm)
       IN  IF r.threw
           THEN Learn("processUserAnswer", [name |-> n], FALSE, kgText, <<>>)
           ELSE Learn("processUserAnswer", [name |-> n], TRUE,
                      saved(addConceptGraph(g,
                              answeredConcept(g.concepts[i], r.value.newConfidence, clock),
                              clock), clock),
                      <<activityOf("reinforcement", "completed")>>)

LearnNext ==
  \/ LearnProcessContent \/ LearnMapNewConnections
  \/ LearnDiscoverHiddenConnections \/ LearnProcessUserAnswer

InitLearn ==
  /\ clock = 1
  /\ kgExists = TRUE
  /\ kgText = JSONstringify(initialGraph(0))
  /\ pc = [t \in Tasks |-> "idle"] /\ op = [t \in Tasks |-> "none"]
  /\ arg = [t \in Tasks |-> Null] /\ graph = [t \in Tasks |-> NoText]
  /\ outcome = [t \in Tasks |-> "none"] /\ done = <<>> /\ started = 0
  /\ LogIdle /\ CalcIdle /\ ClusterIdle /\ PlanIdle /\ ExtIdle
SpecLearn == InitLearn /\ [][LearnNext]_vars

\* ------------------------------------------------------------ observers
HasName(concepts, n) == \E i \in 1..Len(concepts) : concepts[i].name = n
NameCount(concepts, n) == Cardinality({i \in 1..Len(concepts) : concepts[i].name = n})
Range(s) == {s[i] : i \in 1..Len(s)}
\* Task t's write completes in this step.
Saves(t) == pc[t] = "writing" /\ pc'[t] = "idle"
\* a.k = b.k as JavaScript reads it: an absent key reads as undefined.
FieldEq(a, b, k) ==
  IF k \in DOMAIN a /\ k \in DOMAIN b THEN a[k] = b[k]
  ELSE IF k \in ScalarKeys THEN Get(a, k) = Get(b, k)
  ELSE k \notin DOMAIN a /\ k \notin DOMAIN b
ObjectEq(a, b) == \A k \in (DOMAIN a) \cup (DOMAIN b) : FieldEq(a, b, k)
ArrayEq(a, b) == Len(a) = Len(b) /\ \A i \in 1..Len(a) : ObjectEq(a[i], b[i])
\* Two documents agree on every field but last_updated.
DocEq(a, b) ==
  \A k \in ((DOMAIN a) \cup (DOMAIN b)) \ {"last_updated"} :
    /\ k \in DOMAIN a /\ k \in DOMAIN b
    /\ IF k \in ArrayKeys THEN ArrayEq(a[k], b[k]) ELSE a[k] = b[k]

\* ---------------------------------------------------------------- C1
\* C1: a second addConcept(c) right after addConcept(c), same name and
\* fields, leaves the concepts array as long as it was and leaves exactly
\* one concept named c.name.
C1_AddConceptTwice ==
  [][\A t \in Tasks :
       (/\ Saves(t) /\ op[t] = "addConcept"
        /\ Len(done) >= 1
        /\ done[Len(done)].ok /\ done[Len(done)].op = "addConcept"
        /\ done[Len(done)].arg = arg[t])
       => /\ Len(kgText'.concepts) = Len(kgText.concepts)
          /\ NameCount(kgText'.concepts, arg[t].name) = 1]_vars
\* The second of two equal addConcept calls has returned.
C1_Witness ==
  /\ Len(done) >= 2
  /\ \A i \in {Len(done) - 1, Len(done)} : done[i].ok /\ done[i].op = "addConcept"
  /\ done[Len(done)].arg = done[Len(done) - 1].arg

\* ---------------------------------------------------------------- C2
\* C2: after saveKnowledgeGraph(d), loadKnowledgeGraph() returns a document
\* equal to d in every field except last_updated.
C2_RoundTrip ==
  [][\A t \in Tasks :
       Saves(t) =>
         LET r == loadKnowledgeGraph(kgExists', kgText')
         IN  r.ok /\ DocEq(r.graph, graph[t])]_vars

\* ---------------------------------------------------------------- C3
\* C3: a save replaces the whole file, so a concept another writer stored
\* after this writer's load (it is on disk, and not in this writer's copy)
\* is gone once this writer's save completes; both writers return normally.
C3_LostUpdate ==
  [][\A t \in Tasks : \A n \in Names :
       (/\ Saves(t) /\ kgExists
        /\ HasName(kgText.concepts, n) /\ ~HasName(graph[t].concepts, n))
       => outcome'[t] = "ok" /\ ~HasName(kgText'.concepts, n)]_vars
\* Two addConcept calls for different new names overlapped (the second slot
\* is only used while the first is busy), both returned normally, and the
\* file holds only one of the two concepts.
C3_Witness ==
  /\ started = 2 /\ Len(done) = 2
  /\ \A t \in Tasks : pc[t] = "idle" /\ outcome[t] = "ok" /\ op[t] = "addConcept"
  /\ arg[1].name # arg[2].name
  /\ Len(kgText.concepts) = 1
  /\ \E t \in Tasks : ~HasName(kgText.concepts, arg[t].name)

\* ---------------------------------------------------------------- C4
\* C4: identifyKnowledgeClusters returns exactly the connected components of
\* size at least 2 of the graph whose edges are the connections entries
\* (an entry in either concept's list links the two), no concept in two
\* clusters; [A, B with connections [A]] gives the single cluster {A, B}.
Linked(concepts, a, b) ==
  \E i, j \in 1..Len(concepts) :
    /\ concepts[i].name = a /\ concepts[j].name = b
    /\ \/ \E k \in 1..Len(connectionsOf(concepts[i])) : connectionsOf(concepts[i])[k] = b
       \/ \E k \in 1..Len(connectionsOf(concepts[j])) : connectionsOf(concepts[j])[k] = a
RECURSIVE Component(_, _)
Component(concepts, S) ==
  LET S1 == S \cup {b \in ClusterNames : \E a \in S : Linked(concepts, a, b)}
  IN  IF S1 = S THEN S ELSE Component(concepts, S1)
Components(concepts) ==
  {C \in {Component(concepts, {concepts[i].name}) : i \in 1..Len(concepts)} :
     Cardinality(C) >= 2}
C4_Clusters ==
  clPc = "done" =>
    /\ {Range(clOut[i].concepts) : i \in 1..Len(clOut)} = Components(clIn)
    /\ Len(clOut) = Cardinality(Components(clIn))
    /\ \A i \in 1..Len(clOut) :
         clOut[i].size = Cardinality(Range(clOut[i].concepts))
    /\ \A i, j \in 1..Len(clOut) :
         i # j => Range(clOut[i].concepts) \cap Range(clOut[j].concepts) = {}
    /\ (Len(clIn) = 2 /\ clIn[1].name = "A" /\ connectionsOf(clIn[1]) = <<>>
          /\ clIn[2].name = "B" /\ connectionsOf(clIn[2]) = <<"A">>)
       => (Len(clOut) = 1 /\ Range(clOut[1].concepts) = {"A", "B"} /\ clOut[1].size = 2)

\* ---------------------------------------------------------------- C5
\* C5: addConcept(c) on a stored name overlays c on the stored record in
\* place (c's fields win, the other stored fields stay, created_at among
\* them), stamps last_updated and changes no other concept; on a new name
\* it appends c with created_at and last_updated and changes no concept.
C5_AddConceptMerge ==
  [][\A t \in Tasks :
       (Saves(t) /\ op[t] = "addConcept") =>
         LET pre == kgText.concepts
             post == kgText'.concepts
             c == arg[t]
             now == kgText'.last_updated
             i == findIndex(pre, c.name)
         IN  IF i >= 1
             THEN /\ Len(post) = Len(pre)
                  /\ \A j \in 1..Len(pre) : j # i => post[j] = pre[j]
                  /\ DOMAIN post[i] = (DOMAIN pre[i]) \cup (DOMAIN c) \cup {"last_updated"}
                  /\ \A f \in (DOMAIN c) \ {"last_updated"} : post[i][f] = c[f]
                  /\ \A f \in (DOMAIN pre[i]) \ ((DOMAIN c) \cup {"last_updated"}) :
                       post[i][f] = pre[i][f]
                  /\ post[i].last_updated = now
             ELSE /\ Len(post) = Len(pre) + 1
                  /\ \A j \in 1..Len(pre) : post[j] = pre[j]
                  /\ post[Len(post)] =
                       Overlay(c, [created_at |-> now, last_updated |-> now])]_vars
\* A stored concept carries fields of two different addConcept calls.
C5_Witness ==
  /\ Len(done) >= 2
  /\ \A i \in {Len(done) - 1, Len(done)} : done[i].ok /\ done[i].op = "addConcept"
  /\ done[Len(done)].arg.name = done[Len(done) - 1].arg.name
  /\ DOMAIN done[Len(done)].arg # DOMAIN done[Len(done) - 1].arg
  /\ \E i \in 1..Len(kgText.concepts) :
       /\ {"confidence", "category"} \subseteq DOMAIN kgText.concepts[i]
       /\ kgText.concepts[i].created_at < kgText.concepts[i].last_updated

\* ---------------------------------------------------------------- C6
\* C6: no two stored concepts have the same name, in the file and in every
\* document about to be written, however addConcept calls interleave.
C6_UniqueNames ==
  /\ kgExists => \A n \in Names : NameCount(kgText.concepts, n) <= 1
  /\ \A t \in Tasks :
       pc[t] = "writing" => \A n \in Names : NameCount(graph[t].concepts, n) <= 1
\* Two overlapping addConcept calls for the same name have both returned.
C6_Witness ==
  /\ \A t \in Tasks : pc[t] = "idle" /\ outcome[t] = "ok" /\ op[t] = "addConcept"
  /\ arg[1].name = arg[2].name
  /\ HasName(kgText.concepts, arg[1].name)

\* ---------------------------------------------------------------- C7
\* C7: with store operations run one at a time, no step removes a concept
\* name, a content item, a reinforcement session or an exploration
\* suggestion from the knowledge graph.
C7_NoDeletion ==
  [][kgExists =>
       /\ kgExists'
       /\ \A n \in Names : HasName(kgText.concepts, n) => HasName(kgText'.concepts, n)
       /\ Range(kgText.content_items) \subseteq Range(kgText'.content_items)
       /\ Range(kgText.reinforcement_sessions) \subseteq Range(kgText'.reinforcement_sessions)
       /\ Range(kgText.exploration_suggestions) \subseteq
            Range(kgText'.exploration_suggestions)]_vars
\* A content item stored first is still there after two later operations.
C7_Witness ==
  /\ Len(done) = 3 /\ \A i \in 1..3 : done[i].ok
  /\ done[1].op = "addContentItem" /\ done[2].op = "addContentItem"
  /\ done[3].op \in {"saveReflectionSession", "addConcept", "applyNewConnections"}
  /\ Len(kgText.content_items) = 2

\* ---------------------------------------------------------------- C8
\* C8: the activity log never holds more than 1000 entries, and they are
\* the most recently added ones in the order they were added.
C8_ActivityCap ==
  /\ Len(logText.activities) <= MaxActivities
  /\ Len(logText.activities) =
       (IF Len(added) <= MaxActivities THEN Len(added) ELSE MaxActivities)
  /\ \A i \in 1..Len(logText.activities) :
       logText.activities[i] = added[Len(added) - Len(logText.activities) + i]
\* The 1001st add has dropped exactly the oldest entry.
C8_Witness ==
  /\ Len(added) = MaxActivities + 1
  /\ Len(logText.activities) = MaxActivities
  /\ logText.activities[1] = added[2]

\* ---------------------------------------------------------------- C9
\* C9: calculateNewConfidence returns 0.7*current + 0.3*(0.6*accuracy +
\* 0.4*completeness) clamped to [0, 1], and for current, accuracy and
\* completeness all within [0, 1] the result is within [0, 1].
InUnit(v) == IsNum(v) /\ 0 <= v[2] /\ v[2] <= ConfOne
C9_NewConfidence ==
  (calcPc = "done" /\ calcIn.fn = "calculateNewConfidence"
     /\ IsNum(calcIn.currentConfidence)
     /\ IsNum(Get(calcIn.analysis, "accuracy_score"))
     /\ IsNum(Get(calcIn.analysis, "completeness_score")))
  => LET current == calcIn.currentConfidence[2]
         accuracy == calcIn.analysis.accuracy_score[2]
         completeness == calcIn.analysis.completeness_score[2]
         \* 0.7 c + 0.3 (0.6 a + 0.4 k) = (70 c + 18 a + 12 k) / 100
         exact == (70 * current + 18 * accuracy + 12 * completeness) \div 100
         clamped == IF exact < 0 THEN 0 ELSE IF exact > ConfOne THEN ConfOne ELSE exact
     IN  /\ calcOut = Num(clamped)
         /\ (InUnit(calcIn.currentConfidence)
               /\ InUnit(calcIn.analysis.accuracy_score)
               /\ InUnit(calcIn.analysis.completeness_score))
             => InUnit(calcOut)
\* In-range inputs went through the formula: confidence 0.5 answered with
\* perfect accuracy and zero completeness becomes 0.35 + 0.18 = 0.53.
C9_Witness ==
  /\ calcPc = "done" /\ calcIn.fn = "calculateNewConfidence"
  /\ calcIn.currentConfidence = Num(Tenths(5))
  /\ Get(calcIn.analysis, "accuracy_score") = Num(ConfOne)
  /\ Get(calcIn.analysis, "completeness_score") = Num(0)
  /\ calcOut = Num(Tenths(5) + 300)

\* --------------------------------------------------------------- C10
\* C10: calculateNextReinforcement(confidence) returns now + 30 days for
\* confidence >= 0.9, 14 days for [0.8, 0.9), 7 days for [0.6, 0.8), 3 days
\* for [0.4, 0.6) and 1 day otherwise; a boundary value gets the offset of
\* the bucket it opens.
C10_NextReinforcement ==
  (calcPc = "done" /\ calcIn.fn = "calculateNextReinforcement")
  => LET c == calcIn.confidence
         days == (calcOut[2] - calcIn.now) \div DaySeconds
         In(lo, hi) == IsNum(c) /\ lo <= c[2] /\ c[2] < hi
     IN  /\ calcOut = Date(calcIn.now + days * DaySeconds)
         /\ (IsNum(c) /\ c[2] >= Tenths(9)) => days = 30
         /\ In(Tenths(8), Tenths(9)) => days = 14
         /\ In(Tenths(6), Tenths(8)) => days = 7
         /\ In(Tenths(4), Tenths(6)) => days = 3
         /\ (~IsNum(c) \/ c[2] < Tenths(4)) => days = 1
         /\ c = Num(Tenths(9)) => days = 30
         /\ c = Num(Tenths(8)) => days = 14
         /\ c = Num(Tenths(6)) => days = 7
         /\ c = Num(Tenths(4)) => days = 3
\* A confidence of exactly 0.8, at a time after the start, got 14 days.
C10_Witness ==
  /\ calcPc = "done" /\ calcIn.fn = "calculateNextReinforcement"
  /\ calcIn.confidence = Num(Tenths(8)) /\ calcIn.now > 1
  /\ calcOut = Date(calcIn.now + 14 * DaySeconds)

\* --------------------------------------------------------------- C11
\* C11: every reinforcement_schedule assigned to a concept, by
\* extractKnowledge (calculateReinforcementSchedule) as by processUserAnswer
\* (calculateNextReinforcement), is the current time plus the offset the
\* five-bucket table (30/14/7/3/1 days) gives the concept's confidence.
TableDays(c) ==
  IF IsNum(c) /\ c[2] >= Tenths(9) THEN 30
  ELSE IF IsNum(c) /\ c[2] >= Tenths(8) THEN 14
  ELSE IF IsNum(c) /\ c[2] >= Tenths(6) THEN 7
  ELSE IF IsNum(c) /\ c[2] >= Tenths(4) THEN 3
  ELSE 1
C11_SingleStepFunction ==
  (calcPc = "done"
     /\ calcIn.fn \in {"calculateReinforcementSchedule", "calculateNextReinforcement"})
  => calcOut = Date(calcIn.now + TableDays(calcIn.confidence) * DaySeconds)
\* What the extraction table does assign, used to read the counterexample:
\* it agrees with the five-bucket table exactly on [0.4, 0.9).
C11_ExtractionAgreesInMiddle ==
  (calcPc = "done" /\ calcIn.fn = "calculateReinforcementSchedule"
     /\ IsNum(calcIn.confidence)
     /\ calcIn.confidence[2] >= Tenths(4) /\ calcIn.confidence[2] < Tenths(9))
  => calcOut = Date(calcIn.now + TableDays(calcIn.confidence) * DaySeconds)

\* --------------------------------------------------------------- C12
\* C12: getConceptsForReinforcement returns exactly the stored concepts
\* whose reinforcement_schedule is unset or not later than the current
\* time, in store order, and leaves the knowledge graph unchanged.
ScheduleUnset(c) ==
  "reinforcement_schedule" \notin DOMAIN c \/ c.reinforcement_schedule = Null
ScheduleDue(c, now) ==
  \/ ScheduleUnset(c)
  \/ (c.reinforcement_schedule[1] = "date" /\ ~(c.reinforcement_schedule[2] > now))
RECURSIVE DueInOrder(_, _)
DueInOrder(concepts, now) ==
  IF concepts = <<>> THEN <<>>
  ELSE (IF ScheduleDue(Head(concepts), now) THEN <<Head(concepts)>> ELSE <<>>)
         \o DueInOrder(Tail(concepts), now)
C12_DueConcepts ==
  [][(Len(done') = Len(done) + 1
        /\ done'[Len(done')].op = "getConceptsForReinforcement"
        /\ done'[Len(done')].ok)
     => /\ kgExists /\ kgExists' /\ kgText' = kgText
        /\ done'[Len(done')].result = DueInOrder(kgText.concepts, done'[Len(done')].now)]_vars
\* Two concepts are stored, the first due exactly now and the second due
\* later; the call returned the first only.
C12_Witness ==
  /\ done # <<>> /\ kgExists /\ Len(kgText.concepts) = 2
  /\ LET last == done[Len(done)]
     IN  /\ last.op = "getConceptsForReinforcement" /\ last.ok
         /\ Get(kgText.concepts[1], "reinforcement_schedule") = Date(last.now)
         /\ Get(kgText.concepts[2], "reinforcement_schedule") = Date(last.now + 1)
         /\ last.result = <<kgText.concepts[1]>>

\* --------------------------------------------------------------- C13
\* C13: connection merging is idempotent. applyNewConnections and
\* applyConnections add a name to a connections list only if the list does
\* not hold it: applying the same proposed connections a second time leaves
\* every stored connections list as it was after the first time, and a list
\* without duplicates never gains one.
NoDup(list) == \A i, j \in 1..Len(list) : i # j => list[i] # list[j]
StoredLists(text) == [i \in 1..Len(text.concepts) |-> Get(text.concepts[i], "connections")]
StoredList(text, name) == connectionsOf(text.concepts[findIndex(text.concepts, name)])
Merges(t, o) == pc[t] = "writing" /\ pc'[t] = "idle" /\ op[t] = o
C14_ConnectionsReferToConcepts ==
  kgExists =>
    \A i \in 1..Len(kgText.concepts) :
      \A k \in 1..Len(connectionsOf(kgText.concepts[i])) :
        findIndex(kgText.concepts, connectionsOf(kgText.concepts[i])[k]) >= 1

\* --------------------------------------------------------------- C15
\* C15: when the LLM call fails or returns invalid JSON, generateQuiz,
\* promptReflection, processReflection and planCurriculum each return their
\* hardcoded fallback (the 2-question quiz, the 4 default prompts, the
\* default insights object, the 3-subtopic plan) instead of throwing.
BadAnswer == calcIn.llm.kind \in {"error", "invalid"}
C15_Fallbacks ==
  (calcPc = "done" /\ BadAnswer)
  => /\ calcIn.fn = "generateQuiz"
        => /\ ~calcOut.threw
           /\ Len(calcOut.value.questions) = 2 /\ calcOut.value.totalQuestions = 2
           /\ calcOut.value.lessonTitle = calcIn.arg.title
     /\ calcIn.fn = "promptReflection"
        => /\ ~calcOut.threw
           /\ Len(calcOut.value.prompts) = 4
           /\ calcOut.value.lessonTitle = calcIn.arg.title
     /\ calcIn.fn = "processReflection"
        => /\ ~calcOut.threw
           /\ calcOut.value.insights.summary =
                "Learner demonstrated engagement and reflection on the material"
           /\ calcOut.value.insights.confidenceLevel = Num(Tenths(7))
     /\ calcIn.fn = "planCurriculum"
        => /\ ~calcOut.threw
           /\ Len(calcOut.value.subtopics) = 3 /\ calcOut.value.totalEstimatedTime = 20
           /\ calcOut.value.goal = calcIn.arg
\* The answer to generateQuiz was not JSON and the two-question quiz came
\* back.
C15_Witness ==
  /\ calcPc = "done" /\ calcIn.fn = "generateQuiz" /\ calcIn.llm.kind = "invalid"
  /\ ~calcOut.threw /\ calcOut.value.totalQuestions = 2
  /\ calcOut.value.questions[2].type = "true_false"

\* --------------------------------------------------------------- C16
\* C16: an invalid-JSON answer never stops a feature: in processContent,
\* generateExplorationSuggestions, mapNewConnections and processUserAnswer
\* too the bad answer is caught, replaced by a fallback, and the operation
\* completes without throwing.
AsksLLM ==
  /\ calcIn.fn = "mapNewConnections" => calcIn.arg # <<>>
  /\ calcIn.fn = "processUserAnswer" => calcIn.arg.found
C16_NeverHardStops ==
  (calcPc = "done" /\ calcIn.llm.kind = "invalid" /\ AsksLLM) => ~calcOut.threw

\* --------------------------------------------------------------- C17
\* C17: loading the knowledge graph when knowledge-graph.json is absent
\* returns the default empty document and persists it at once, so that a
\* later load reads that default from disk.
EmptyDocument(d) ==
  /\ d.concepts = <<>> /\ d.content_items = <<>>
  /\ d.reinforcement_sessions = <<>> /\ d.exploration_suggestions = <<>>
  /\ d.user_profile.goals = <<>> /\ d.user_profile.learning_style = ""
C17_LoadCreatesDefault ==
  [][(~kgExists /\ Len(done') = Len(done) + 1
        /\ done'[Len(done')].op = "loadKnowledgeGraph")
     => /\ done'[Len(done')].ok
        /\ EmptyDocument(done'[Len(done')].result)
        /\ kgExists' /\ EmptyDocument(kgText')]_vars

\* --------------------------------------------------------------- C18
\* C18: initialize writes a default knowledge-graph, activity-log or
\* content-cache file only when that file is absent, so calling initialize
\* again after any sequence of store operations leaves the contents of all
\* three existing files unchanged.
Initializes ==
  Len(done') = Len(done) + 1 /\ done'[Len(done')].op = "initializeAll"
C18_InitializeOnce ==
  [][Initializes
     => /\ kgExists => kgText' = kgText
        /\ logExists => logText' = logText
        /\ cacheExists => cacheText' = cacheText
        /\ ~kgExists => (kgText'.concepts = <<>> /\ kgText'.content_items = <<>>)
        /\ ~logExists => logText'.activities = <<>>
        /\ ~cacheExists => cacheText'.items = <<>>
        /\ kgExists' /\ logExists' /\ cacheExists']_vars
\* initialize created the three files, a concept was added, and
\* initialize ran again: the concept is still there and the cache file
\* is the one the first call wrote.
C18_Witness ==
  /\ Len(done) = 3
  /\ done[1].op = "initializeAll" /\ done[2].op = "addConcept" /\ done[2].ok
  /\ done[3].op = "initializeAll"
  /\ Len(kgText.concepts) = 1
  /\ logText.last_updated = 1 /\ cacheText.last_updated = 1

\* --------------------------------------------------------------- C19
\* C19: when reading or parsing the knowledge-graph file fails inside a
\* store mutator, the error is re-thrown to the caller, there is no retry
\* and no write, and the file is left exactly as it was.
Unreadable == ~kgExists \/ IsCorrupt(kgText)
C19_FailedLoadNoWrite ==
  [][Unreadable
     => /\ kgExists' = kgExists /\ kgText' = kgText
        /\ started' = started + 1
           => /\ Len(done') = Len(done) + 1 /\ ~done'[Len(done')].ok
              /\ \E t \in Tasks :
                   outcome'[t] = "error" /\ done'[Len(done')].op = op'[t]
              /\ \A t \in Tasks : pc'[t] = "idle"]_vars
\* addConcept and then updateUserProfile were called on a file that does
\* not parse: both calls threw and the file is as it was.
C19_Witness ==
  /\ kgExists /\ IsCorrupt(kgText)
  /\ Len(done) = 2
  /\ done[1].op = "addConcept" /\ ~done[1].ok
  /\ done[2].op = "updateUserProfile" /\ ~done[2].ok
  /\ \A t \in Tasks : pc[t] = "idle"

\* --------------------------------------------------------------- C20
\* C20: getNextSubtopic returns null if all subtopics are completed and
\* otherwise a subtopic that is not yet completed: in whatever order
\* markSubtopicCompleted is called on the plan's indices, once every index
\* is in completedSubtopics getNextSubtopic returns null and getProgress
\* reports isComplete, and before that the subtopic returned is one whose
\* index is not in completedSubtopics.
Completed(p) == {p.completedSubtopics[i] : i \in 1..Len(p.completedSubtopics)}
AllCompleted(p) == \A i \in 0..(Len(p.subtopics) - 1) : i \in Completed(p)
C20_NextSubtopic ==
  IF AllCompleted(plan)
  THEN getNextSubtopic(plan) = Null /\ getProgress(plan).isComplete
  ELSE /\ getNextSubtopic(plan) # Null
       /\ getNextSubtopic(plan)[2] \notin Completed(plan)
\* Marked in index order the claim holds: what the code does give.
InOrder(p) ==
  \A i \in 1..Len(p.completedSubtopics) : p.completedSubtopics[i] = i - 1
C20_InOrderOnly ==
  (InOrder(plan) /\ plan.currentSubtopic = Len(plan.completedSubtopics))
  => C20_NextSubtopic

\* ------------------------------------------------------------------ C21
C21_Safe ==
  /\ attempts <= maxRetries
  /\ fetches <= 1
  /\ fetches = 1 => attempts = maxRetries /\ retryCount = maxRetries
  /\ urlPc = "done" =>
       /\ page = 0
       /\ \A i \in 1..Len(pages) : pages[i] # "open"
       /\ retryCount = maxRetries => fetches = 1
       /\ urlOut.status \in {"returned", "thrown"}
       /\ urlOut.status = "thrown" =>
            /\ urlOut.message = "Unable to process URL"
            /\ attempts = maxRetries /\ retryCount = maxRetries
            /\ fetches = 1

C22_DueAt(now) ==
  getConceptsForReinforcementFilter(JSONparse(kgText).concepts, now)

\* C22: generateReinforcementSession returns null when no concept is due at
\* the moment of the call; otherwise it returns a session of at most five
\* concepts, each one due at that moment, and every question of the session
\* carries the concept_name of one of the session's concepts.
C22_SessionWellFormed ==
  rsPc = "done" =>
    IF Len(C22_DueAt(rsNow)) = 0 THEN rsOut.isNull
    ELSE /\ ~rsOut.isNull
         /\ Len(rsOut.value.concepts) <= 5
         /\ \A i \in 1..Len(rsOut.value.concepts) :
              rsOut.value.concepts[i] \in Range(C22_DueAt(rsNow))
         /\ \A k \in 1..Len(rsOut.value.questions) :
              \E i \in 1..Len(rsOut.value.concepts) :
                rsOut.value.questions[k].concept_name = rsOut.value.concepts[i].name

\* Six concepts were due; five are in the session, question generation
\* having failed for none of them, and one question is the one whose
\* generated text named another concept.
C22_Witness ==
  /\ rsPc = "done" /\ Len(rsDue) = 6
  /\ ~rsOut.isNull
  /\ Len(rsOut.value.concepts) = 5
  /\ \E k \in 1..Len(rsOut.value.questions) :
       "difficulty" \notin DOMAIN rsOut.value.questions[k]

\* Question generation failed for a selected concept, which is left out,
\* and the session still came back with a later concept and its questions.
C22_WitnessLeftOut ==
  /\ rsPc = "done" /\ Len(rsDue) = 2
  /\ ~rsOut.isNull
  /\ Len(rsOut.value.concepts) = 1
  /\ rsOut.value.concepts[1] = rsDue[2]
  /\ Len(rsOut.value.questions) = 2

\* ------------------------------------------------------------------ C23
\* The number of the question a state is at, counting through the phases.
C23_Index(st) == 3 * st.currentPhase + st.currentQuestion

C23_Position ==
  LET st == convState[1]
      n == Len(answered)
  IN  /\ st.currentQuestion \in 0..2 /\ st.currentPhase \in 0..5
      /\ C23_Index(st) = (IF n < 15 THEN n ELSE 15)
      /\ st.isComplete <=> n >= 15
      /\ getCurrentQuestion(st).isNull <=> st.isComplete
      /\ ~st.isComplete =>
           /\ getCurrentQuestion(st).phase = conversationFlow[st.currentPhase + 1].phase
           /\ getCurrentQuestion(st).question =
                conversationFlow[st.currentPhase + 1].questions[st.currentQuestion + 1]

C23_Step ==
  Len(answered') = Len(answered) + 1 =>
    /\ C23_Index(convState'[1]) =
         (IF convState[1].isComplete THEN 15 ELSE C23_Index(convState[1]) + 1)
    /\ C23_Index(convState'[1]) >= C23_Index(convState[1])

\* C23: from the state conductDeepDiveConversation returns, every
\* processUserResponse call on an incomplete conversation moves to the next
\* question in phase order, whatever the LLM call inside it did, and no call
\* moves backwards; isComplete is false after fewer than 15 responses and
\* true from the 15th on; getCurrentQuestion returns null exactly when the
\* conversation is complete.
C23_Advances == []C23_Position /\ [][C23_Step]_vars

\* Fifteen responses, the LLM call failing for each one: the conversation is
\* complete and nothing was merged into the profile.
C23_Witness ==
  /\ convState # <<>> /\ hPc = [h \in Tasks |-> "idle"]
  /\ Len(answered) = 15 /\ convState[1].isComplete
  /\ profileObj.goals = <<>> /\ profileObj.learning_style = ""
  /\ "isNull" \in DOMAIN question /\ question.isNull

\* ------------------------------------------------------------------ C24
\* C24: on one socket the i-th user message of a profiling conversation is
\* applied to the i-th question (so no question is answered twice and none
\* is skipped), and completeProfiling is called at most once, also when
\* messages arrive while an earlier one is still awaiting the LLM.
C24_OneQuestionPerMessage ==
  /\ \A i \in 1..Len(answered) : 3 * answered[i].phase + answered[i].question = i - 1
  /\ completions <= 1

\* The same, for the messages that arrived with no other message in flight.
C24_SequentialOnly == overlaps = 0 => C24_OneQuestionPerMessage

\* Two messages were both applied to the last question and completeProfiling
\* was called for each of them.
C24_CompletedTwice ==
  /\ completions = 2 /\ Len(answered) = 16
  /\ answered[15] = answered[16]

\* ------------------------------------------------------------------ C25
\* The reflection sessions in the knowledge-graph file.
StoredSessions ==
  IF kgExists /\ "reflection_sessions" \in DOMAIN kgText
  THEN kgText.reflection_sessions ELSE <<>>

C25_Persisted(session) ==
  /\ Len(session.insights) = session.current_question_index
  /\ session.current_question_index <= Len(session.questions)
  /\ session.status = "completed"
       <=> session.current_question_index = Len(session.questions)

C25_Stored ==
  /\ \A i \in 1..Len(StoredSessions) : C25_Persisted(StoredSessions[i])
  /\ \A i, j \in 1..Len(StoredSessions) :
       StoredSessions[i].id = StoredSessions[j].id => i = j

C25_ThrowKeepsStore ==
  (rfCalls' = rfCalls + 1 /\ rfOut'.op = "process" /\ rfOut'.threw) =>
    kgText' = kgText /\ kgExists' = kgExists

\* C25: in every persisted state of an interactive reflection session,
\* insights.length equals current_question_index and is at most
\* questions.length, and the status is 'completed' exactly when
\* current_question_index has reached questions.length; no two stored
\* sessions share an id; a processReflectionResponse call that throws leaves
\* the store as it was.
C25_SessionInvariant == []C25_Stored /\ [][C25_ThrowKeepsStore]_vars

\* A call that throws leaves the store as it was, in every case.
C25_ThrowsKeepStore == [][C25_ThrowKeepsStore]_vars

\* The same for the sessions that were given at least one question.
C25_WithQuestions ==
  /\ \A i \in 1..Len(StoredSessions) :
       Len(StoredSessions[i].questions) > 0 => C25_Persisted(StoredSessions[i])
  /\ \A i, j \in 1..Len(StoredSessions) :
       StoredSessions[i].id = StoredSessions[j].id => i = j

\* processReflectionResponse has thrown on a completed session.
C25_ThrewOnCompleted ==
  /\ rfOut # <<>> /\ rfOut.op = "process" /\ rfOut.threw
  /\ rfOut.message = "Reflection session not found or not active"
  /\ \E i \in 1..Len(StoredSessions) :
       StoredSessions[i].id = rfOut.sessionId /\ StoredSessions[i].status = "completed"

\* ------------------------------------------------------------------ C26
\* C26: a session created by initiateReflectionSession for which
\* getCurrentQuestion returns null has been driven to status 'completed'.
C26_NullMeansCompleted ==
  \A i \in 1..Len(StoredSessions) :
    currentReflectionQuestion(kgText, StoredSessions[i].id).isNull
      => StoredSessions[i].status = "completed"

\* The same for the sessions that were given at least one question.
C26_WithQuestions ==
  \A i \in 1..Len(StoredSessions) :
    (Len(StoredSessions[i].questions) > 0
       /\ currentReflectionQuestion(kgText, StoredSessions[i].id).isNull)
      => StoredSessions[i].status = "completed"

\* A session with no question: getCurrentQuestion has returned null for it,
\* processReflectionResponse has thrown, and it is still active.
C26_StuckActive ==
  /\ "isNull" \in DOMAIN rfQuestion /\ rfQuestion.isNull
  /\ rfOut # <<>> /\ rfOut.op = "process" /\ rfOut.threw
  /\ rfOut.message = "No current question found"
  /\ rfOut.sessionId = rfQuestion.sessionId
  /\ \E i \in 1..Len(StoredSessions) :
       /\ StoredSessions[i].id = rfOut.sessionId
       /\ StoredSessions[i].status = "active"
       /\ StoredSessions[i].questions = <<>>

\* ------------------------------------------------------------------ C27
C27_Timers ==
  /\ Cardinality(timers) = (IF isRunning THEN 4 ELSE 0)
  /\ isRunning => objectValues(intervals) = timers

\* C27: after any sequence of start and stop calls there are exactly four
\* periodic timers when isRunning is true and none when it is false, at
\* most one 'connection' listener of the pipeline is installed, and each
\* 'content-processed' or 'reinforcement-completed' event is handled once.
C27_RegisteredOnce ==
  /\ C27_Timers
  /\ listeners <= 1
  /\ \A i \in 1..Len(sockets) :
       sockets[i].contentProcessed <= 1 /\ sockets[i].reinforcementCompleted <= 1
  /\ "times" \in DOMAIN handled => handled.times <= 1

\* After start, stop, start, a socket that connected afterwards emitted
\* 'content-processed' and two handlers ran for it.
C27_HandledTwice ==
  /\ isRunning /\ listeners = 2 /\ Cardinality(timers) = 4
  /\ "times" \in DOMAIN handled
  /\ handled.event = "content-processed" /\ handled.times = 2

\* ------------------------------------------------------------------ C28
\* The fields processUserAnswer is to change, and what it is to leave
\* alone: from the concepts `before` to the concepts `after`, the concept
\* called name differs at most in those fields and every other concept is
\* the same.
AnswerFields == {"confidence", "last_reinforced", "reinforcement_schedule", "last_updated"}
FrameKept(before, after, name) ==
  /\ Len(after) = Len(before)
  /\ \A i \in 1..Len(before) :
       IF before[i].name = name
       THEN \A k \in ((DOMAIN before[i]) \cup (DOMAIN after[i])) \ AnswerFields :
              /\ k \in DOMAIN before[i] /\ k \in DOMAIN after[i]
              /\ after[i][k] = before[i][k]
       ELSE after[i] = before[i]

\* C28: when processUserAnswer's update is written, the answered concept
\* changes only in confidence, last_reinforced, reinforcement_schedule and
\* last_updated; every other field of it and every other concept keep the
\* values the store holds at that moment, whatever was written to the store
\* while the LLM analysed the answer.
C28_Frame ==
  [][\A t \in Tasks :
       (pc[t] = "writing" /\ op[t] = "processUserAnswer" /\ pc'[t] = "logging")
       => FrameKept(kgText.concepts, kgText'.concepts, arg[t].name)]_vars

\* The same, measured against the document addConcept has just loaded: no
\* other write can fall between that load and the update computed from it.
C28_FrameAtLoad ==
  [][\A t \in Tasks :
       (pc[t] = "adding" /\ pc'[t] = "writing")
       => FrameKept(kgText.concepts, graph'[t].concepts, arg[t].name)]_vars

\* The update does set the three fields it is meant to set: the stored
\* concept carries the new confidence, the time of the answer and the next
\* review date once the answer's write has landed.
C28_SetsItsFields ==
  [][\A t \in Tasks :
       (pc[t] = "writing" /\ op[t] = "processUserAnswer" /\ pc'[t] = "logging")
       => LET c == kgText'.concepts[findIndex(kgText'.concepts, arg[t].name)]
          IN  /\ c.confidence = JsonValue(arg[t].confidence)
              /\ c.last_reinforced = arg[t].last_reinforced
              /\ c.reinforcement_schedule = arg[t].reinforcement_schedule]_vars

\* applyNewConnections linked A and B and returned before the answer about
\* A was written; the answer returned normally, and A's stored connections
\* list is empty again while B still lists A.
C28_ConnectionLost ==
  /\ Len(done) = 2
  /\ done[1].op = "applyNewConnections" /\ done[1].ok
  /\ done[2].op = "processUserAnswer" /\ done[2].ok /\ done[2].arg.name = "A"
  /\ \A t \in Tasks : pc[t] = "idle"
  /\ connectionsOf(kgText.concepts[findIndex(kgText.concepts, "A")]) = <<>>
  /\ connectionsOf(kgText.concepts[findIndex(kgText.concepts, "B")]) = <<"A">>

\* ------------------------------------------------------------------ C29
Reinforced(concept) == Get(concept, "last_reinforced") \notin {Null, Undefined}
StoredAs(concepts, n) == concepts[findIndex(concepts, n)]
KeepsConnections(before, after) ==
  \A i \in 1..Len(before) :
    /\ HasName(after, before[i].name)
    /\ Range(connectionsOf(before[i])) \subseteq
         Range(connectionsOf(StoredAs(after, before[i].name)))
KeepsReinforced(before, after) ==
  \A i \in 1..Len(before) :
    Reinforced(before[i]) =>
      HasName(after, before[i].name) /\ Reinforced(StoredAs(after, before[i].name))
LastOp(o) == Len(done') = Len(done) + 1 /\ done'[Len(done')].op = o

\* C29: across any sequence of processContent, mapNewConnections,
\* discoverHiddenConnections and processUserAnswer calls, each awaited
\* before the next, a name once in a stored concept's connections list
\* stays in it and a last_reinforced once set is never reset to null.
C29_NeverLost ==
  [][/\ KeepsConnections(kgText.concepts, kgText'.concepts)
     /\ KeepsReinforced(kgText.concepts, kgText'.concepts)]_vars

\* discoverHiddenConnections and processUserAnswer, run one at a time, lose
\* neither.
C29_KeptByAnswerAndDiscovery ==
  [][(LastOp("discoverHiddenConnections") \/ LastOp("processUserAnswer"))
       => /\ KeepsConnections(kgText.concepts, kgText'.concepts)
          /\ KeepsReinforced(kgText.concepts, kgText'.concepts)]_vars

\* A was extracted, answered (last_reinforced set) and extracted again from
\* new content: all three calls returned normally and A's last_reinforced
\* is null.
C29_ReinforcementReset ==
  /\ Len(done) = 3 /\ \A i \in 1..3 : done[i].ok
  /\ done[1].op = "processContent" /\ done[3].op = "processContent"
  /\ done[2].op = "processUserAnswer" /\ done[2].arg.name = "A"
  /\ HasName(kgText.concepts, "A")
  /\ Get(StoredAs(kgText.concepts, "A"), "last_reinforced") = Null

\* A and B were extracted, discoverHiddenConnections linked them, and a
\* further call that returned normally left A without B in its list.
C29_ConnectionDropped ==
  /\ Len(done) = 3 /\ \A i \in 1..3 : done[i].ok
  /\ done[1].op = "processContent" /\ done[2].op = "discoverHiddenConnections"
  /\ done[2].arg # <<>>
  /\ done[3].op \in {"processContent", "mapNewConnections"}
  /\ HasName(kgText.concepts, "A") /\ HasName(kgText.concepts, "B")
  /\ "B" \notin Range(connectionsOf(StoredAs(kgText.concepts, "A")))
  /\ "A" \in Range(connectionsOf(StoredAs(kgText.concepts, "B")))
\* The same, the third call being mapNewConnections.
C29_DroppedByMapping ==
  C29_ConnectionDropped /\ done[3].op = "mapNewConnections"

====
